---------------------------- MODULE Spec2Model ----------------------------
(***************************************************************************)
(* Background media library of the better-home new-tab page.               *)
(*                                                                         *)
(* The module models src/src/hooks/useAppSettings.ts: the AppSettings      *)
(* provider, the handle cache (getCachedBlobUrl / getDataUrlFromBlobUrl)   *)
(* and the useBackgroundImages hook, on top of the IndexedDB adapter of    *)
(* src/src/lib/indexeddb-utils.ts.                                         *)
(*                                                                         *)
(* Execution model.  JavaScript runs one macrotask at a time; a promise    *)
(* that is already settled continues in the microtasks of the same         *)
(* macrotask.  An action of this module is therefore one macrotask with    *)
(* all of its microtasks: a handler runs up to its first await of real     *)
(* I/O (an IndexedDB request or a fetch).  What is in flight is kept in    *)
(* tasks (and ld for the startup load), each with the values its closure   *)
(* captured when the handler was called.  IndexedDB serves the requests of *)
(* one database in the order they were issued, so a request takes effect   *)
(* on db in the action that issues it and its continuation runs later.     *)
(***************************************************************************)
EXTENDS Integers, Sequences, FiniteSets, TLC

VARIABLES
  images,              \* useState images (useAppSettings.ts:358)
  currentImage,        \* useState currentImage (360); Null for null
  settings,            \* useState BackgroundSettings (361-367)
  appSettings,         \* useState AppSettings (65-73)
  db,                  \* the three object stores, one key each
  thumb,               \* localStorage current_thumbnail; "" when absent
  blobUrlCache,        \* Map data URL -> blob URL (262), as a set of pairs
  blobUrlToDataUrlMap, \* Map blob URL -> data URL (267), as a set of pairs
  minted,              \* number of URL.createObjectURL calls so far
  now,                 \* Date.now()
  ld,                  \* the startup loadData call: position and locals
  app,                 \* the startup loadSettings call of the provider
  tasks,               \* suspended handler calls, in order of suspension
  timers,              \* active setInterval timers of the rotation effect
  got,                 \* results handed back by direct getCachedBlobUrl calls
  cur,                 \* history: the operation called last
  hist                 \* history: counters, what was added / persisted, and
                       \* the argument of the last updateSettings

vars == <<images, currentImage, settings, appSettings, db, thumb, blobUrlCache,
          blobUrlToDataUrlMap, minted, now, ld, app, tasks, timers, got, cur, hist>>

-----------------------------------------------------------------------------
(* Bounds of the model *)

MaxOps == 2
MaxReloads == 1
MaxFails == 1
MaxTasks == 2
MaxClock == 1
MaxCalls == 3
MaxTicks == 7

-----------------------------------------------------------------------------
(* JavaScript values *)

\* null of `string | null`
Null == "<null>"

\* A value read back from the store, with its typeof.
JBool(x) == [t |-> "boolean", b |-> x, n |-> 0, s |-> ""]
JNum(x) == [t |-> "number", b |-> FALSE, n |-> x, s |-> ""]
JStr(x) == [t |-> "string", b |-> FALSE, n |-> 0, s |-> x]
JNull == [t |-> "object", b |-> FALSE, n |-> 0, s |-> Null]
JUndef == [t |-> "undefined", b |-> FALSE, n |-> 0, s |-> ""]

TypeOf(v) == v.t

\* string | null as stored
JStrOrNull(x) == IF x = Null THEN JNull ELSE JStr(x)

Range(f) == {f[i] : i \in DOMAIN f}

-----------------------------------------------------------------------------
(* Strings *)

StartsWith(s, p) == Len(s) >= Len(p) /\ SubSeq(s, 1, Len(p)) = p

CharAt(s, i) == SubSeq(s, i, i)

\* s.indexOf(c) for a one-character c, 0 when absent
RECURSIVE IndexFrom(_, _, _)
IndexFrom(s, c, i) ==
  IF i > Len(s) THEN 0
  ELSE IF CharAt(s, i) = c THEN i
  ELSE IndexFrom(s, c, i + 1)

\* s.includes(p)
Includes(s, p) ==
  \E i \in 1..(Len(s) - Len(p) + 1) : SubSeq(s, i, i + Len(p) - 1) = p

Base64Alphabet ==
  {"A","B","C","D","E","F","G","H","I","J","K","L","M","N","O","P","Q","R","S",
   "T","U","V","W","X","Y","Z","a","b","c","d","e","f","g","h","i","j","k","l",
   "m","n","o","p","q","r","s","t","u","v","w","x","y","z","0","1","2","3","4",
   "5","6","7","8","9","+","/"}

\* atob(s) returns (TRUE) or throws InvalidCharacterError (FALSE): padding is
\* dropped when the length is a multiple of 4, the rest must be alphabet
\* characters and its length must not be 1 modulo 4.
AtobOk(s) ==
  LET n == Len(s)
      cut == IF n % 4 = 0 /\ n >= 2 /\ SubSeq(s, n - 1, n) = "=="
               THEN n - 2
             ELSE IF n % 4 = 0 /\ n >= 1 /\ CharAt(s, n) = "="
               THEN n - 1
             ELSE n
  IN /\ cut % 4 # 1
     /\ \A i \in 1..cut : CharAt(s, i) \in Base64Alphabet

\* dataUrl.match(/^data:([^,]+),(.+)$/): the two groups, or matched = FALSE
DataUrlMatch(u) ==
  LET c == IndexFrom(u, ",", 1)
  IN IF StartsWith(u, "data:") /\ c > 6 /\ c < Len(u)
       THEN [matched |-> TRUE, mimePart |-> SubSeq(u, 6, c - 1),
             dataPart |-> SubSeq(u, c + 1, Len(u))]
       ELSE [matched |-> FALSE, mimePart |-> "", dataPart |-> ""]


-----------------------------------------------------------------------------
(* The handle cache: getCachedBlobUrl and getDataUrlFromBlobUrl *)

\* Map.has / Map.get / Map.set on a map kept as a set of <<key, value>>
MapHas(m, k) == \E e \in m : e[1] = k
MapGet(m, k) == (CHOOSE e \in m : e[1] = k)[2]
MapSet(m, k, v) == {e \in m : e[1] # k} \cup {<<k, v>>}

\* The n-th handle URL.createObjectURL returns (blob:<origin>/<uuid>).
BlobUrl(n) == "blob:" \o ToString(n)

\* Mint with the reverse entry of line 337 left out
MintNoReverse(c, dataUrl) ==
  [cache |-> MapSet(c.cache, dataUrl, BlobUrl(c.minted + 1)),
   rev |-> c.rev,
   minted |-> c.minted + 1]

\* blobUrlCache.set(dataUrl, blobUrl); blobUrlToDataUrlMap.set(blobUrl, dataUrl)
\* of a freshly created object URL; c is [cache, rev, minted].
Mint(c, dataUrl) ==
  [cache |-> MapSet(c.cache, dataUrl, BlobUrl(c.minted + 1)),
   rev |-> MapSet(c.rev, BlobUrl(c.minted + 1), dataUrl),
   minted |-> c.minted + 1]

Caches == [cache |-> blobUrlCache, rev |-> blobUrlToDataUrlMap, minted |-> minted]

\* GetCachedBlobUrl with the test of line 278 left out
GetCachedBlobUrlNoPassThrough(dataUrl, c) ==
  LET m == DataUrlMatch(dataUrl)
  IN IF MapHas(c.cache, dataUrl)
       THEN [pending |-> FALSE, url |-> MapGet(c.cache, dataUrl), c |-> c,
             threw |-> FALSE]
     ELSE IF ~m.matched \/ ~Includes(m.mimePart, ";base64")
       THEN [pending |-> TRUE, url |-> dataUrl, c |-> c, threw |-> FALSE]
     ELSE IF AtobOk(m.dataPart)
       THEN [pending |-> FALSE, url |-> BlobUrl(c.minted + 1),
             c |-> Mint(c, dataUrl), threw |-> FALSE]
     ELSE [pending |-> FALSE, url |-> dataUrl, c |-> c, threw |-> TRUE]

\* What a call getCachedBlobUrl(dataUrl) does before it either returns or
\* awaits fetch: pending = TRUE when it is suspended in fetch (lines 294, 314),
\* otherwise url is the value it resolves to; c is the cache state it leaves;
\* threw = the catch block of lines 340-344 ran.
GetCachedBlobUrl(dataUrl, c) ==
  LET m == DataUrlMatch(dataUrl)
  IN IF StartsWith(dataUrl, "blob:")
       THEN [pending |-> FALSE, url |-> dataUrl, c |-> c, threw |-> FALSE]
     ELSE IF MapHas(c.cache, dataUrl)
       THEN [pending |-> FALSE, url |-> MapGet(c.cache, dataUrl), c |-> c,
             threw |-> FALSE]
     ELSE IF ~m.matched \/ ~Includes(m.mimePart, ";base64")
       THEN [pending |-> TRUE, url |-> dataUrl, c |-> c, threw |-> FALSE]
     ELSE IF AtobOk(m.dataPart)
       THEN [pending |-> FALSE, url |-> BlobUrl(c.minted + 1),
             c |-> Mint(c, dataUrl), threw |-> FALSE]
     ELSE [pending |-> FALSE, url |-> dataUrl, c |-> c, threw |-> TRUE]

\* FetchSettled with the cache written on the failure path too
FetchSettledCachesFailure(dataUrl, ok, c) ==
  IF ok THEN [url |-> BlobUrl(c.minted + 1), c |-> Mint(c, dataUrl)]
  ELSE [url |-> dataUrl, c |-> [c EXCEPT !.cache = MapSet(@, dataUrl, dataUrl)]]

\* The rest of a call suspended in fetch: ok = the fetch and response.blob()
\* succeeded; otherwise the catch block returns the argument (340-344).
FetchSettled(dataUrl, ok, c) ==
  IF ok THEN [url |-> BlobUrl(c.minted + 1), c |-> Mint(c, dataUrl)]
  ELSE [url |-> dataUrl, c |-> c]

\* getDataUrlFromBlobUrl(blobUrl): Null for null
GetDataUrlFromBlobUrl(blobUrl, rev) ==
  IF MapHas(rev, blobUrl) /\ MapGet(rev, blobUrl) # ""
    THEN MapGet(rev, blobUrl)
  ELSE Null

\* The durable url behind a displayed url, as removeImage computes it (616-622)
SearchUrl(c, rev) ==
  IF StartsWith(c, "blob:") /\ GetDataUrlFromBlobUrl(c, rev) # Null
    THEN GetDataUrlFromBlobUrl(c, rev)
  ELSE c

-----------------------------------------------------------------------------
(* Data *)

\* A BackgroundImage is [id, url, thumbnail]; thumbnail = "" when the entry
\* has none (the code tests it for truthiness only).
Image(id, url, thumbnail) == [id |-> id, url |-> url, thumbnail |-> thumbnail]

DEFAULT_BACKGROUND_IMAGES ==
  << Image("default-1", "/screenshot.png", ""),
     Image("default-2", "/screenshot1.png", ""),
     Image("default-3", "/screenshot2.png", ""),
     Image("default-4", "/screenshot3.png", "") >>

\* useState initial values
InitialBackgroundSettings ==
  [shuffle |-> TRUE, changeInterval |-> 5, showOverlay |-> FALSE,
   changeByTime |-> FALSE, selectedImageUrl |-> Null]

InitialAppSettings ==
  [showWeather |-> TRUE, showCalendar |-> TRUE, showTrendingArticles |-> TRUE,
   fontColor |-> "white", showWeatherLocation |-> TRUE,
   searchEngine |-> "google", showAnalogClock |-> FALSE]

SearchEngines == {"google", "bing", "duckduckgo", "yahoo", "brave"}

\* The value under one key of an object store: present = FALSE when getItem
\* yields undefined.  A settings object lists every field the code looks at,
\* JUndef for a field the object does not have.
NoImages == [present |-> FALSE, items |-> << >>]
StoredImages(items) == [present |-> TRUE, items |-> items]

NoBackgroundObject ==
  [shuffle |-> JUndef, changeInterval |-> JUndef, showOverlay |-> JUndef,
   changeByTime |-> JUndef, selectedImageUrl |-> JUndef]
NoBackgroundSettings == [present |-> FALSE, obj |-> NoBackgroundObject]

NoAppObject ==
  [showWeather |-> JUndef, showCalendar |-> JUndef, showTrendingArticles |-> JUndef,
   fontColor |-> JUndef, showWeatherLocation |-> JUndef, searchEngine |-> JUndef,
   showAnalogClock |-> JUndef]
NoAppSettings == [present |-> FALSE, obj |-> NoAppObject]

\* The structured clone of an in-memory settings object, as setItem stores it
BackgroundBlob(s) ==
  [present |-> TRUE,
   obj |-> [shuffle |-> JBool(s.shuffle), changeInterval |-> JNum(s.changeInterval),
            showOverlay |-> JBool(s.showOverlay), changeByTime |-> JBool(s.changeByTime),
            selectedImageUrl |-> JStrOrNull(s.selectedImageUrl)]]

AppBlob(s) ==
  [present |-> TRUE,
   obj |-> [showWeather |-> JBool(s.showWeather), showCalendar |-> JBool(s.showCalendar),
            showTrendingArticles |-> JBool(s.showTrendingArticles),
            fontColor |-> JStr(s.fontColor),
            showWeatherLocation |-> JBool(s.showWeatherLocation),
            searchEngine |-> JStr(s.searchEngine),
            showAnalogClock |-> JBool(s.showAnalogClock)]]

\* An item of a stored array whose id is not a string (a number, say)
NotAString == "<number>"

\* The type guard of parsed.every(...) in loadData
IsBackgroundImage(item) == item.id # NotAString /\ item.url # NotAString

Urls(list) == {list[i].url : i \in DOMAIN list}

-----------------------------------------------------------------------------
(* Loading persisted settings *)

\* loadData, lines 439-475: valid = the stored object passes the guard of the
\* if; value = settingsWithDefaults.
LoadedBackgroundSettings(stored) ==
  LET o == stored.obj
  IN [valid |-> /\ stored.present
                /\ TypeOf(o.shuffle) = "boolean"
                /\ TypeOf(o.changeInterval) = "number",
      value |-> [shuffle |-> o.shuffle.b,
                 changeInterval |-> o.changeInterval.n,
                 showOverlay |-> IF TypeOf(o.showOverlay) = "boolean"
                                   THEN o.showOverlay.b ELSE FALSE,
                 changeByTime |-> IF TypeOf(o.changeByTime) = "boolean"
                                    THEN o.changeByTime.b ELSE FALSE,
                 selectedImageUrl |-> IF TypeOf(o.selectedImageUrl) = "string"
                                        THEN o.selectedImageUrl.s ELSE Null]]

\* LoadedAppSettings with the defaults of lines 106-120 left out
LoadedAppSettingsNoDefault(stored) ==
  LET o == stored.obj
  IN [valid |-> /\ stored.present
                /\ TypeOf(o.showWeather) = "boolean"
                /\ TypeOf(o.showCalendar) = "boolean"
                /\ TypeOf(o.showTrendingArticles) = "boolean"
                /\ o.fontColor \in {JStr("white"), JStr("black")},
      value |-> [showWeather |-> o.showWeather.b,
                 showCalendar |-> o.showCalendar.b,
                 showTrendingArticles |-> o.showTrendingArticles.b,
                 fontColor |-> o.fontColor.s,
                 showWeatherLocation |-> o.showWeatherLocation.b,
                 searchEngine |-> o.searchEngine.s,
                 showAnalogClock |-> o.showAnalogClock.b]]

\* loadSettings of the provider, lines 85-124: valid = the guard of the if;
\* value = parsedSettings as handed to setSettings.
LoadedAppSettings(stored) ==
  LET o == stored.obj
  IN [valid |-> /\ stored.present
                /\ TypeOf(o.showWeather) = "boolean"
                /\ TypeOf(o.showCalendar) = "boolean"
                /\ TypeOf(o.showTrendingArticles) = "boolean"
                /\ o.fontColor \in {JStr("white"), JStr("black")},
      value |-> [showWeather |-> o.showWeather.b,
                 showCalendar |-> o.showCalendar.b,
                 showTrendingArticles |-> o.showTrendingArticles.b,
                 fontColor |-> o.fontColor.s,
                 showWeatherLocation |-> IF TypeOf(o.showWeatherLocation) = "boolean"
                                           THEN o.showWeatherLocation.b ELSE TRUE,
                 searchEngine |-> IF /\ TypeOf(o.searchEngine) = "string"
                                     /\ o.searchEngine.s \in SearchEngines
                                    THEN o.searchEngine.s ELSE "google",
                 showAnalogClock |-> IF TypeOf(o.showAnalogClock) = "boolean"
                                       THEN o.showAnalogClock.b ELSE FALSE]]

\* The entry loadData selects, lines 478-495 and 521-529, given the stored
\* images and settings it read; none = TRUE when it selects nothing.
FirstWithUrl(list, url) == list[CHOOSE i \in DOMAIN list :
                                  /\ list[i].url = url
                                  /\ \A j \in 1..(i - 1) : list[j].url # url]

StartupTarget(storedImages, storedSettings) ==
  LET s == LoadedBackgroundSettings(storedSettings)
      list == storedImages.items
      nothing == [none |-> TRUE, img |-> Image("", "", "")]
  IN IF storedSettings.present
       THEN IF s.valid /\ storedImages.present /\ Len(list) > 0
              THEN IF /\ s.value.selectedImageUrl \notin {Null, ""}
                      /\ s.value.selectedImageUrl \in Urls(list)
                     THEN [none |-> FALSE,
                           img |-> FirstWithUrl(list, s.value.selectedImageUrl)]
                   ELSE IF list[1].url # ""
                     THEN [none |-> FALSE, img |-> list[1]]
                   ELSE nothing
            ELSE nothing
     ELSE IF storedImages.present /\ Len(list) > 0
       THEN [none |-> FALSE, img |-> list[1]]
     ELSE nothing

-----------------------------------------------------------------------------
(* State after construction *)

IdleLoad == [pc |-> "idle", ok |-> TRUE, storedImages |-> NoImages,
             storedSettings |-> NoBackgroundSettings, unmounted |-> FALSE]

IdleAppLoad == [pc |-> "idle", ok |-> TRUE, stored |-> NoAppSettings]

NoOp == [op |-> "none", url |-> "", pre |-> FALSE, solo |-> TRUE]

InitialHistory ==
  [ops |-> 0, reloads |-> 0, fails |-> 0, failed |-> FALSE, clean |-> TRUE,
   added |-> {}, sel |-> Null, partial |-> << >>]

\* What an earlier session may have left in the stores
RemoteA == Image("100", "https://example.com/a.png", "")
VideoB == Image("101", "data:video/mp4;base64,AAAA", "data:image/jpeg;base64,TTTT")
NumericId == Image(NotAString, "https://example.com/c.png", "")

OldShapeSettings ==
  \* written by a version that had neither changeByTime nor selectedImageUrl
  [present |-> TRUE,
   obj |-> [NoBackgroundObject EXCEPT !.shuffle = JBool(FALSE),
              !.changeInterval = JNum(10), !.showOverlay = JBool(TRUE)]]

StringIntervalSettings ==
  \* changeInterval kept as a string
  [present |-> TRUE,
   obj |-> [NoBackgroundObject EXCEPT !.shuffle = JBool(TRUE),
              !.changeInterval = JStr("5"), !.selectedImageUrl = JStr(VideoB.url)]]

RotatingSettings ==
  BackgroundBlob([InitialBackgroundSettings EXCEPT
                    !.changeByTime = TRUE, !.selectedImageUrl = VideoB.url])

Persisted(im, st, th) == [images |-> im, settings |-> st, thumb |-> th]

PersistedStores ==
  { Persisted(NoImages, NoBackgroundSettings, ""),
    Persisted(StoredImages(<< >>), RotatingSettings, ""),
    Persisted(StoredImages(<<RemoteA, VideoB>>), NoBackgroundSettings, ""),
    Persisted(StoredImages(<<RemoteA, VideoB>>), RotatingSettings, VideoB.thumbnail),
    Persisted(StoredImages(<<RemoteA, VideoB>>), OldShapeSettings, ""),
    Persisted(StoredImages(<<RemoteA, VideoB>>), StringIntervalSettings,
              VideoB.thumbnail),
    Persisted(StoredImages(<<RemoteA>>), NoBackgroundSettings, ""),
    Persisted(StoredImages(<<NumericId>>), NoBackgroundSettings, "") }

MemoryInit ==
  /\ images = << >>
  /\ currentImage = Null
  /\ settings = InitialBackgroundSettings
  /\ appSettings = InitialAppSettings
  /\ blobUrlCache = {}
  /\ blobUrlToDataUrlMap = {}
  /\ minted = 0
  /\ now = 0
  /\ ld = IdleLoad
  /\ app = IdleAppLoad
  /\ tasks = << >>
  /\ timers = << >>
  /\ got = {}
  /\ cur = NoOp
  /\ hist = InitialHistory

Init ==
  /\ MemoryInit
  /\ \E p \in PersistedStores :
       /\ db = [images |-> p.images, settings |-> p.settings, app |-> NoAppSettings]
       /\ thumb = p.thumb

-----------------------------------------------------------------------------
(* Pieces the handlers share *)

Mounted == ld.pc # "idle" /\ ~ld.unmounted
Idle == ld.pc = "done" /\ tasks = << >>

Task(kind, url, thumbnail, finalUrl, im, st, c) ==
  [kind |-> kind, url |-> url, thumbnail |-> thumbnail, finalUrl |-> finalUrl,
   images |-> im, settings |-> st, current |-> c]

Without(seq, i) == SubSeq(seq, 1, i - 1) \o SubSeq(seq, i + 1, Len(seq))

SetCaches(c) ==
  /\ blobUrlCache' = c.cache
  /\ blobUrlToDataUrlMap' = c.rev
  /\ minted' = c.minted

\* An IndexedDB request settles with success or with an error
Outcomes == {ok \in BOOLEAN : ok \/ hist.fails < MaxFails}

Failed(h, ok) ==
  IF ok THEN h
  ELSE [h EXCEPT !.fails = @ + 1, !.failed = TRUE, !.clean = FALSE]

\* A handler is called: the history of the call
Called(op, url, pre) ==
  [op |-> op, url |-> url, pre |-> pre, solo |-> Idle]

CountCall == [hist EXCEPT !.ops = @ + 1, !.clean = @ /\ Idle]

\* The rotation effect, lines 721-729.  React runs it again when one of its
\* dependencies changed: first the cleanup of the previous run (clearInterval
\* of the timer that run armed), then the body.
Armed(st, n) ==
  st.changeByTime /\ st.shuffle /\ ~(n <= 1) /\ st.changeInterval # 0

\* ClearInterval with the cleanup of line 728 left out
ClearIntervalNever(ts, st, n) == ts

\* The cleanup of the effect run that saw st and n entries: clearInterval of
\* the timer it armed, if it armed one
ClearInterval(ts, st, n) ==
  IF Armed(st, n) /\ ts # << >> THEN SubSeq(ts, 1, Len(ts) - 1) ELSE ts

RotationEffect(ts, st, n) ==
  IF Armed(st, n) THEN Append(ts, st.changeInterval * 60 * 1000) ELSE ts

\* setImages was called (selectRandomImage is a new callback then), or one of
\* settings.changeByTime, shuffle, changeInterval changed.  A state update
\* of an unmounted component renders nothing and runs no effect.
Rerender(imagesSet) ==
  timers' =
    IF /\ ~ld.unmounted
       /\ \/ imagesSet
          \/ settings'.changeByTime # settings.changeByTime
          \/ settings'.shuffle # settings.shuffle
          \/ settings'.changeInterval # settings.changeInterval
      THEN RotationEffect(ClearInterval(timers, settings, Len(images)),
                          settings', Len(images'))
    ELSE timers

\* getCachedBlobUrl(targetUrl).then(setCurrentImage) for a data: URL,
\* setCurrentImage(targetUrl) otherwise; rest = the other suspended calls
Resolve(url, c) ==
  IF StartsWith(url, "data:") THEN GetCachedBlobUrl(url, c)
  ELSE [pending |-> FALSE, url |-> url, c |-> c]

Show(targetUrl, rest) ==
  LET r == Resolve(targetUrl, Caches)
  IN IF r.pending
       THEN /\ tasks' = Append(rest, Task("setResolve", targetUrl, "", "",
                                          << >>, settings, Null))
            /\ UNCHANGED <<currentImage, blobUrlCache, blobUrlToDataUrlMap, minted>>
     ELSE /\ tasks' = rest
          /\ currentImage' = r.url
          /\ SetCaches(r.c)

-----------------------------------------------------------------------------
(* Startup: the mount effect of useBackgroundImages, lines 370-558 *)

\* The effect body: the queued microtask paints the cached thumbnail, and
\* loadData runs up to its first await, getItem(background_images, images).
Mount ==
  /\ ld.pc = "idle"
  /\ currentImage' = IF thumb # "" THEN thumb ELSE currentImage
  /\ \E ok \in Outcomes :
       /\ ld' = [ld EXCEPT !.pc = "getImages", !.ok = ok,
                           !.storedImages = IF ok THEN db.images ELSE NoImages]
       /\ hist' = Failed(hist, ok)
  /\ UNCHANGED <<images, settings, appSettings, db, thumb, blobUrlCache,
                 blobUrlToDataUrlMap, minted, now, app, tasks, timers, got, cur>>

\* The first getItem settled: a rejection goes to the outer catch (552-554),
\* otherwise getItem(background_settings, settings) is issued.
LoadImagesRead ==
  /\ ld.pc = "getImages"
  /\ IF ld.ok
       THEN \E ok \in Outcomes :
              /\ ld' = [ld EXCEPT !.pc = "getSettings", !.ok = ok,
                          !.storedSettings = IF ok THEN db.settings
                                             ELSE NoBackgroundSettings]
              /\ hist' = Failed(hist, ok)
     ELSE ld' = [ld EXCEPT !.pc = "done"] /\ hist' = hist
  /\ UNCHANGED <<images, currentImage, settings, appSettings, db, thumb,
                 blobUrlCache, blobUrlToDataUrlMap, minted, now, app, tasks,
                 timers, got, cur>>

\* Lines 439-551 for the values read: setSettings, the selection and the
\* thumbnail slot.
RestoreSelection ==
  LET s == LoadedBackgroundSettings(ld.storedSettings)
      t == StartupTarget(ld.storedImages, ld.storedSettings)
  IN /\ settings' = IF s.valid THEN s.value ELSE settings
     /\ IF t.none
          THEN UNCHANGED <<currentImage, thumb, tasks, blobUrlCache,
                           blobUrlToDataUrlMap, minted>>
        ELSE /\ Show(t.img.url, tasks)
             /\ thumb' = IF t.img.thumbnail # "" THEN t.img.thumbnail ELSE thumb

\* NeedsSeed with the empty array of line 424 not taken for uninitialised
NeedsSeedAbsent(stored) == ~stored.present

\* Lines 396 and 424: is the stored value absent, or an empty array?
NeedsSeed(stored) == ~stored.present \/ Len(stored.items) = 0

\* The second getItem settled: lines 395-437, then 439-551 unless the
\* defaults are being written.
LoadSettingsRead ==
  /\ ld.pc = "getSettings"
  /\ IF ~ld.ok
       THEN /\ ld' = [ld EXCEPT !.pc = "done"]
            /\ UNCHANGED <<images, currentImage, settings, db, thumb, blobUrlCache,
                           blobUrlToDataUrlMap, minted, tasks, timers, hist>>
     ELSE IF NeedsSeed(ld.storedImages)
       THEN /\ images' = DEFAULT_BACKGROUND_IMAGES
            /\ \E ok \in Outcomes :
                 /\ db' = IF ok
                            THEN [db EXCEPT !.images =
                                    StoredImages(DEFAULT_BACKGROUND_IMAGES)]
                          ELSE db
                 /\ ld' = [ld EXCEPT !.pc = "seed", !.ok = ok]
                 /\ hist' = Failed(hist, ok)
            /\ UNCHANGED <<currentImage, settings, thumb, blobUrlCache,
                           blobUrlToDataUrlMap, minted, tasks>>
            /\ Rerender(TRUE)
     ELSE /\ images' = IF \A i \in DOMAIN ld.storedImages.items :
                             IsBackgroundImage(ld.storedImages.items[i])
                         THEN ld.storedImages.items
                       ELSE images
          /\ RestoreSelection
          /\ ld' = [ld EXCEPT !.pc = "done"]
          /\ Rerender(\A i \in DOMAIN ld.storedImages.items :
                         IsBackgroundImage(ld.storedImages.items[i]))
          /\ UNCHANGED <<db, hist>>
  /\ UNCHANGED <<appSettings, now, app, got, cur>>

\* setItem of the defaults settled: the first default is shown when it
\* succeeded (400-403, 429-432); then lines 439-551, which select nothing
\* here because the stored images were absent or empty.
LoadSeedDone ==
  /\ ld.pc = "seed"
  /\ currentImage' = IF ld.ok /\ Len(DEFAULT_BACKGROUND_IMAGES) > 0
                       THEN DEFAULT_BACKGROUND_IMAGES[1].url
                     ELSE currentImage
  /\ settings' = IF LoadedBackgroundSettings(ld.storedSettings).valid
                   THEN LoadedBackgroundSettings(ld.storedSettings).value
                 ELSE settings
  /\ ld' = [ld EXCEPT !.pc = "done"]
  /\ UNCHANGED <<images, appSettings, db, thumb, blobUrlCache, blobUrlToDataUrlMap,
                 minted, now, app, tasks, got, cur, hist>>
  /\ Rerender(FALSE)

-----------------------------------------------------------------------------
(* addImage, lines 566-596 *)

AddInputs ==
  { <<"https://example.com/a.png", "">>,
    <<"data:text/plain,hi", "">>,
    <<"data:video/mp4;base64,AAAA", "data:image/jpeg;base64,TTTT">> }

\* AddAppend with the new entry left out of the list set and written
AddAppendLost(url, thumbnail, finalUrl, snapImages, c, h, rest) ==
  \E dt \in {0, 1}, ok \in Outcomes :
    /\ now + dt <= MaxClock
    /\ now' = now + dt
    /\ images' = snapImages
    /\ db' = IF ok THEN [db EXCEPT !.images = StoredImages(snapImages)] ELSE db
    /\ tasks' = Append(rest, Task("addWrite", url, thumbnail, finalUrl,
                                   snapImages, settings, currentImage))
    /\ hist' = Failed([h EXCEPT !.added = @ \cup
                         {Image(ToString(now + dt), url, thumbnail)}], ok)
    /\ SetCaches(c)
    /\ UNCHANGED <<currentImage, settings, appSettings, thumb, ld, app, got>>
    /\ Rerender(TRUE)

\* AddAppend with the display handle stored as the entry's url
AddAppendHandle(url, thumbnail, finalUrl, snapImages, c, h, rest) ==
  \E dt \in {0, 1}, ok \in Outcomes :
    LET newImage == Image(ToString(now + dt), finalUrl, thumbnail)
        updated == Append(snapImages, newImage)
    IN /\ now + dt <= MaxClock
       /\ now' = now + dt
       /\ images' = updated
       /\ db' = IF ok THEN [db EXCEPT !.images = StoredImages(updated)] ELSE db
       /\ tasks' = Append(rest, Task("addWrite", url, thumbnail, finalUrl,
                                      snapImages, settings, currentImage))
       /\ hist' = Failed([h EXCEPT !.added = @ \cup
                            {Image(ToString(now + dt), url, thumbnail)}], ok)
       /\ SetCaches(c)
       /\ UNCHANGED <<currentImage, settings, appSettings, thumb, ld, app, got>>
       /\ Rerender(TRUE)

\* Lines 579-590: the entry is appended to the list the closure captured
\* and the list is written; the call is suspended in `await setItem`.
\* h is the history so far, rest the other suspended calls.
AddAppend(url, thumbnail, finalUrl, snapImages, c, h, rest) ==
  \E dt \in {0, 1}, ok \in Outcomes :
    LET newImage == Image(ToString(now + dt), url, thumbnail)
        updated == Append(snapImages, newImage)
    IN /\ now + dt <= MaxClock
       /\ now' = now + dt
       /\ images' = updated
       /\ db' = IF ok THEN [db EXCEPT !.images = StoredImages(updated)] ELSE db
       /\ tasks' = Append(rest, Task("addWrite", url, thumbnail, finalUrl,
                                      snapImages, settings, currentImage))
       /\ hist' = Failed([h EXCEPT !.added = @ \cup {newImage}], ok)
       /\ SetCaches(c)
       /\ UNCHANGED <<currentImage, settings, appSettings, thumb, ld, app, got>>
       /\ Rerender(TRUE)

\* The call: lines 568-577, and on unless getCachedBlobUrl awaits a fetch
AddImage(url, thumbnail) ==
  /\ Mounted
  /\ hist.ops < MaxOps
  /\ Len(tasks) < MaxTasks
  /\ cur' = Called("addImage", url, images = << >>)
  /\ LET r == Resolve(url, Caches)
     IN IF r.pending
          THEN /\ tasks' = Append(tasks, Task("addResolve", url, thumbnail, url,
                                              images, settings, currentImage))
               /\ hist' = CountCall
               /\ UNCHANGED <<images, currentImage, settings, appSettings, db, thumb,
                              blobUrlCache, blobUrlToDataUrlMap, minted, now, ld,
                              app, timers, got>>
        ELSE AddAppend(url, thumbnail, r.url, images, r.c, CountCall, tasks)

\* The fetch inside getCachedBlobUrl settled: lines 295-302 / 315-321 or the
\* catch, then addImage goes on from line 579.
AddResolved(i) ==
  /\ i \in DOMAIN tasks
  /\ tasks[i].kind = "addResolve"
  /\ \E fetched \in BOOLEAN :
       LET t == tasks[i]
           r == FetchSettled(t.url, fetched, Caches)
       IN AddAppend(t.url, t.thumbnail, r.url, t.images, r.c, hist, Without(tasks, i))
  /\ UNCHANGED cur

\* IsFirstImage with the length tested after the append
IsFirstImageAfter(snapImages) == Len(snapImages) = 1

\* Line 593, on the list the closure captured
IsFirstImage(snapImages) == Len(snapImages) = 0

\* AddWritten with the first entry recorded as the selection
AddWrittenSelects(i) ==
  /\ i \in DOMAIN tasks
  /\ tasks[i].kind = "addWrite"
  /\ currentImage' = IF IsFirstImage(tasks[i].images) THEN tasks[i].finalUrl
                     ELSE currentImage
  /\ settings' = IF IsFirstImage(tasks[i].images)
                   THEN [settings EXCEPT !.selectedImageUrl = tasks[i].url]
                 ELSE settings
  /\ tasks' = Without(tasks, i)
  /\ UNCHANGED <<images, appSettings, db, thumb, blobUrlCache,
                 blobUrlToDataUrlMap, minted, now, ld, app, timers, got, cur, hist>>

\* setItem settled, either way: lines 592-595
AddWritten(i) ==
  /\ i \in DOMAIN tasks
  /\ tasks[i].kind = "addWrite"
  /\ currentImage' = IF IsFirstImage(tasks[i].images) THEN tasks[i].finalUrl
                     ELSE currentImage
  /\ tasks' = Without(tasks, i)
  /\ UNCHANGED <<images, settings, appSettings, db, thumb, blobUrlCache,
                 blobUrlToDataUrlMap, minted, now, ld, app, timers, got, cur, hist>>

-----------------------------------------------------------------------------
(* removeImage, lines 603-639 *)

RECURSIVE Filter(_, _)
\* images.filter((img) => img.id !== id)
Filter(list, id) ==
  IF list = << >> THEN << >>
  ELSE IF Head(list).id # id THEN <<Head(list)>> \o Filter(Tail(list), id)
  ELSE Filter(Tail(list), id)

FirstWithId(list, id) == list[CHOOSE i \in DOMAIN list :
                                /\ list[i].id = id
                                /\ \A j \in 1..(i - 1) : list[j].id # id]

\* The call: lines 604-610, suspended in `await setItem`
RemoveImage(id) ==
  /\ Mounted
  /\ hist.ops < MaxOps
  /\ Len(tasks) < MaxTasks
  /\ \E i \in DOMAIN images : images[i].id = id
  /\ LET updated == Filter(images, id)
     IN /\ images' = updated
        /\ \E ok \in Outcomes :
             /\ db' = IF ok THEN [db EXCEPT !.images = StoredImages(updated)] ELSE db
             /\ hist' = Failed([CountCall EXCEPT
                                  !.added = {a \in @ : a.id # id}], ok)
        /\ tasks' = Append(tasks, Task("removeWrite", "", "", "", updated,
                                        settings, currentImage))
  /\ cur' = Called("removeImage", FirstWithId(images, id).url,
                   /\ currentImage # Null
                   /\ SearchUrl(currentImage, blobUrlToDataUrlMap)
                        = FirstWithId(images, id).url)
  /\ UNCHANGED <<currentImage, settings, appSettings, thumb, blobUrlCache,
                 blobUrlToDataUrlMap, minted, now, ld, app, got>>
  /\ Rerender(TRUE)

\* SelectionRemoved with the negation of line 625 left out
SelectionRemovedInverted(current, updated, rev) ==
  /\ current \notin {Null, ""}
  /\ SearchUrl(current, rev) \in Urls(updated)

\* Does line 625 decide that the displayed image was removed?  current is
\* the currentImage the closure captured.
SelectionRemoved(current, updated, rev) ==
  /\ current \notin {Null, ""}
  /\ SearchUrl(current, rev) \notin Urls(updated)

\* setItem settled, either way: lines 612-638
RemoveWritten(i) ==
  /\ i \in DOMAIN tasks
  /\ tasks[i].kind = "removeWrite"
  /\ LET t == tasks[i]
     IN IF t.images = << >>
          THEN /\ currentImage' = Null
               /\ tasks' = Without(tasks, i)
               /\ UNCHANGED <<blobUrlCache, blobUrlToDataUrlMap, minted>>
        ELSE IF SelectionRemoved(t.current, t.images, blobUrlToDataUrlMap)
          THEN Show(t.images[1].url, Without(tasks, i))
        ELSE /\ tasks' = Without(tasks, i)
             /\ UNCHANGED <<currentImage, blobUrlCache, blobUrlToDataUrlMap, minted>>
  /\ UNCHANGED <<images, settings, appSettings, db, thumb, now, ld, app, timers,
                 got, cur, hist>>

\* A fetch started by getCachedBlobUrl(targetUrl).then(setCurrentImage)
\* settled (500-504, 533-537, 629-633, 651-655)
ShowResolved(i) ==
  /\ i \in DOMAIN tasks
  /\ tasks[i].kind = "setResolve"
  /\ \E fetched \in BOOLEAN :
       LET r == FetchSettled(tasks[i].url, fetched, Caches)
       IN /\ currentImage' = r.url
          /\ SetCaches(r.c)
  /\ tasks' = Without(tasks, i)
  /\ UNCHANGED <<images, settings, appSettings, db, thumb, now, ld, app, timers,
                 got, cur, hist>>

-----------------------------------------------------------------------------
(* selectRandomImage, lines 644-659, and the rotation timer *)

\* RandomTarget with the index drawn not used
RandomTargetFirst(list, index) == list[1].url

\* Lines 646-647: the url at the index drawn
RandomTarget(list, index) == list[index].url

\* index = Math.floor(Math.random() * images.length) + 1; 0 stands for the
\* call on an empty list, which returns at line 645
RandomPick(index) ==
  /\ IF images = << >> THEN index = 0 ELSE index \in DOMAIN images
  /\ cur' = Called("selectRandomImage",
                   IF index = 0 THEN "" ELSE images[index].url, index # 0)
  /\ hist' = CountCall
  /\ IF index = 0
       THEN UNCHANGED <<currentImage, tasks, blobUrlCache, blobUrlToDataUrlMap, minted>>
     ELSE Show(RandomTarget(images, index), tasks)
  /\ UNCHANGED <<images, settings, appSettings, db, thumb, now, ld, app, timers, got>>

\* A call through the hook's return value
SelectRandomImage(index) ==
  /\ Mounted
  /\ hist.ops < MaxOps
  /\ Len(tasks) < MaxTasks
  /\ RandomPick(index)

\* The interval callback of line 724-726
RotationTick(index) ==
  /\ timers # << >>
  /\ hist.ops < MaxOps
  /\ Len(tasks) < MaxTasks
  /\ RandomPick(index)

-----------------------------------------------------------------------------
(* selectImage, lines 666-701 *)

\* SelectApply with the display handle persisted as the selection
SelectApplyHandle(url, displayUrl, snapSettings, c, h, rest) ==
  LET updated == [snapSettings EXCEPT !.selectedImageUrl = displayUrl]
  IN /\ currentImage' = displayUrl
     /\ settings' = updated
     /\ \E ok \in Outcomes :
          /\ db' = IF ok THEN [db EXCEPT !.settings = BackgroundBlob(updated)] ELSE db
          /\ hist' = Failed([h EXCEPT !.sel = IF ok THEN url ELSE @], ok)
     /\ tasks' = rest
     /\ SetCaches(c)
     /\ UNCHANGED <<images, appSettings, now, ld, app, got>>
     /\ Rerender(FALSE)

\* Lines 689-699: the display url is set, the selection is merged into the
\* settings the closure captured and written.  Nothing follows the await.
SelectApply(url, displayUrl, snapSettings, c, h, rest) ==
  LET updated == [snapSettings EXCEPT !.selectedImageUrl = url]
  IN /\ currentImage' = displayUrl
     /\ settings' = updated
     /\ \E ok \in Outcomes :
          /\ db' = IF ok THEN [db EXCEPT !.settings = BackgroundBlob(updated)] ELSE db
          /\ hist' = Failed([h EXCEPT !.sel = IF ok THEN url ELSE @], ok)
     /\ tasks' = rest
     /\ SetCaches(c)
     /\ UNCHANGED <<images, appSettings, now, ld, app, got>>
     /\ Rerender(FALSE)

\* SelectImage with the test of line 668 left out: a url of no entry is
\* resolved, displayed and stored like the url of an entry without thumbnail
SelectImageUnchecked(url) ==
  /\ Mounted
  /\ hist.ops < MaxOps
  /\ Len(tasks) < MaxTasks
  /\ cur' = Called("selectImage", url, url \in Urls(images))
  /\ thumb' = IF url \in Urls(images) /\ FirstWithUrl(images, url).thumbnail # ""
                THEN FirstWithUrl(images, url).thumbnail ELSE thumb
  /\ LET r == Resolve(url, Caches)
     IN IF r.pending
          THEN /\ tasks' = Append(tasks, Task("selectResolve", url, "", "", images,
                                              settings, currentImage))
               /\ hist' = CountCall
               /\ UNCHANGED <<images, currentImage, settings, appSettings, db,
                              blobUrlCache, blobUrlToDataUrlMap, minted, now, ld,
                              app, timers, got>>
        ELSE SelectApply(url, r.url, settings, r.c, CountCall, tasks)

\* The call: lines 667-687, and on unless getCachedBlobUrl awaits a fetch.
\* When images.find (line 667) finds no entry with the url, the body of the
\* `if` of line 668 is skipped and the call returns.
SelectImage(url) ==
  /\ Mounted
  /\ hist.ops < MaxOps
  /\ Len(tasks) < MaxTasks
  /\ cur' = Called("selectImage", url, url \in Urls(images))
  /\ IF url \notin Urls(images)
       THEN /\ hist' = CountCall
            /\ UNCHANGED <<images, currentImage, settings, appSettings, db, thumb,
                           blobUrlCache, blobUrlToDataUrlMap, minted, now, ld,
                           app, tasks, timers, got>>
     ELSE /\ thumb' = IF FirstWithUrl(images, url).thumbnail # ""
                        THEN FirstWithUrl(images, url).thumbnail ELSE thumb
          /\ LET r == Resolve(url, Caches)
             IN IF r.pending
                  THEN /\ tasks' = Append(tasks, Task("selectResolve", url, "", "",
                                                      images, settings, currentImage))
                       /\ hist' = CountCall
                       /\ UNCHANGED <<images, currentImage, settings, appSettings,
                                      db, blobUrlCache, blobUrlToDataUrlMap, minted,
                                      now, ld, app, timers, got>>
                ELSE SelectApply(url, r.url, settings, r.c, CountCall, tasks)

\* The fetch inside getCachedBlobUrl settled; selectImage goes on from 689
SelectResolved(i) ==
  /\ i \in DOMAIN tasks
  /\ tasks[i].kind = "selectResolve"
  /\ \E fetched \in BOOLEAN :
       LET t == tasks[i]
           r == FetchSettled(t.url, fetched, Caches)
       IN SelectApply(t.url, r.url, t.settings, r.c, hist, Without(tasks, i))
  /\ UNCHANGED <<thumb, cur>>

-----------------------------------------------------------------------------
(* updateSettings of the hook, lines 708-718 *)

\* { ...settings, ...newSettings }
Merge(s, partial) ==
  [f \in DOMAIN s |-> IF f \in DOMAIN partial THEN partial[f] ELSE s[f]]

SettingsInputs ==
  { [changeByTime |-> TRUE], [changeInterval |-> 0], [showOverlay |-> TRUE] }

\* UpdateSettings with the state set back when the write fails
UpdateSettingsRollback(newSettings) ==
  /\ Mounted
  /\ hist.ops < MaxOps
  /\ Len(tasks) < MaxTasks
  /\ LET updated == Merge(settings, newSettings)
     IN \E ok \in Outcomes :
          /\ settings' = IF ok THEN updated ELSE settings
          /\ db' = IF ok THEN [db EXCEPT !.settings = BackgroundBlob(updated)]
                   ELSE db
          /\ hist' = Failed([CountCall EXCEPT !.sel = IF ok THEN Null ELSE @,
                                              !.partial = <<newSettings>>], ok)
  /\ cur' = Called("updateSettings", "", TRUE)
  /\ UNCHANGED <<images, currentImage, appSettings, thumb, blobUrlCache,
                 blobUrlToDataUrlMap, minted, now, ld, app, tasks, got>>
  /\ Rerender(FALSE)

\* Lines 711-717: the state is set to the merged object, which is then
\* written; a write that fails is logged.
UpdateSettings(newSettings) ==
  /\ Mounted
  /\ hist.ops < MaxOps
  /\ Len(tasks) < MaxTasks
  /\ LET updated == Merge(settings, newSettings)
     IN /\ settings' = updated
        /\ \E ok \in Outcomes :
             /\ db' = IF ok THEN [db EXCEPT !.settings = BackgroundBlob(updated)]
                      ELSE db
             /\ hist' = Failed([CountCall EXCEPT !.sel = IF ok THEN Null ELSE @,
                                                 !.partial = <<newSettings>>], ok)
  /\ cur' = Called("updateSettings", "", TRUE)
  /\ UNCHANGED <<images, currentImage, appSettings, thumb, blobUrlCache,
                 blobUrlToDataUrlMap, minted, now, ld, app, tasks, got>>
  /\ Rerender(FALSE)

-----------------------------------------------------------------------------
(* The page is loaded again *)

\* Everything in memory is gone, suspended calls included; the stores and
\* localStorage stay.
Reload ==
  /\ Mounted
  /\ hist.reloads < MaxReloads
  /\ images' = << >>
  /\ currentImage' = Null
  /\ settings' = InitialBackgroundSettings
  /\ appSettings' = InitialAppSettings
  /\ blobUrlCache' = {}
  /\ blobUrlToDataUrlMap' = {}
  /\ ld' = IdleLoad
  /\ app' = IdleAppLoad
  /\ tasks' = << >>
  /\ timers' = << >>
  /\ got' = {}
  /\ cur' = NoOp
  /\ hist' = [hist EXCEPT !.reloads = @ + 1, !.failed = FALSE]
  /\ UNCHANGED <<db, thumb, minted, now>>

-----------------------------------------------------------------------------
(* The library: every interleaving of the startup load, the handlers, the
   rotation timer, store failures and reloads *)

Next ==
  \/ Mount
  \/ LoadImagesRead
  \/ LoadSettingsRead
  \/ LoadSeedDone
  \/ \E in \in AddInputs : AddImage(in[1], in[2])
  \/ \E i \in DOMAIN tasks : AddResolved(i)
  \/ \E i \in DOMAIN tasks : AddWritten(i)
  \/ \E i \in DOMAIN images : RemoveImage(images[i].id)
  \/ \E i \in DOMAIN tasks : RemoveWritten(i)
  \/ \E i \in DOMAIN tasks : ShowResolved(i)
  \/ \E n \in 0..Len(images) : SelectRandomImage(n)
  \/ \E n \in 0..Len(images) : RotationTick(n)
  \/ \E i \in DOMAIN images : SelectImage(images[i].url)
  \/ \E i \in DOMAIN tasks : SelectResolved(i)
  \/ \E p \in SettingsInputs : UpdateSettings(p)
  \/ Reload

Spec == Init /\ [][Next]_vars

-----------------------------------------------------------------------------
(* The library used one call at a time: a handler is called, and the timer
   fires, only when the startup load and every earlier call have finished.
   Store requests and fetches may still fail, and the page may be loaded
   again at any moment. *)

NextSolo ==
  \/ Mount
  \/ LoadImagesRead
  \/ LoadSettingsRead
  \/ LoadSeedDone
  \/ Idle /\ \E in \in AddInputs : AddImage(in[1], in[2])
  \/ \E i \in DOMAIN tasks : AddResolved(i)
  \/ \E i \in DOMAIN tasks : AddWritten(i)
  \/ Idle /\ \E i \in DOMAIN images : RemoveImage(images[i].id)
  \/ \E i \in DOMAIN tasks : RemoveWritten(i)
  \/ \E i \in DOMAIN tasks : ShowResolved(i)
  \/ Idle /\ \E n \in 0..Len(images) : SelectRandomImage(n)
  \/ Idle /\ \E n \in 0..Len(images) : RotationTick(n)
  \/ Idle /\ \E i \in DOMAIN images : SelectImage(images[i].url)
  \/ \E i \in DOMAIN tasks : SelectResolved(i)
  \/ Idle /\ \E p \in SettingsInputs : UpdateSettings(p)
  \/ Reload

SpecSolo == Init /\ [][NextSolo]_vars

-----------------------------------------------------------------------------
(* AppSettingsProvider, lines 64-154 *)

\* The mount effect: loadSettings runs up to `await getItem`
AppMount ==
  /\ app.pc = "idle"
  /\ \E ok \in Outcomes :
       /\ app' = [pc |-> "loading", ok |-> ok,
                  stored |-> IF ok THEN db.app ELSE NoAppSettings]
       /\ hist' = Failed(hist, ok)
  /\ UNCHANGED <<images, currentImage, settings, appSettings, db, thumb,
                 blobUrlCache, blobUrlToDataUrlMap, minted, now, ld, tasks,
                 timers, got, cur>>

\* getItem settled: lines 86-128
AppLoaded ==
  /\ app.pc = "loading"
  /\ appSettings' = IF app.ok /\ LoadedAppSettings(app.stored).valid
                      THEN LoadedAppSettings(app.stored).value
                    ELSE appSettings
  /\ app' = [app EXCEPT !.pc = "ready"]
  /\ UNCHANGED <<images, currentImage, settings, db, thumb, blobUrlCache,
                 blobUrlToDataUrlMap, minted, now, ld, tasks, timers, got, cur, hist>>

AppSettingsInputs ==
  { [showWeather |-> FALSE], [searchEngine |-> "bing", showAnalogClock |-> TRUE] }

\* updateSettings of the provider, lines 139-147
AppUpdateSettings(newSettings) ==
  /\ app.pc # "idle"
  /\ hist.ops < MaxOps
  /\ LET updated == Merge(appSettings, newSettings)
     IN /\ appSettings' = updated
        /\ \E ok \in Outcomes :
             /\ db' = IF ok THEN [db EXCEPT !.app = AppBlob(updated)] ELSE db
             /\ hist' = Failed([hist EXCEPT !.ops = @ + 1,
                                            !.partial = <<newSettings>>], ok)
  /\ cur' = [op |-> "updateAppSettings", url |-> "", pre |-> TRUE,
             solo |-> app.pc = "ready"]
  /\ UNCHANGED <<images, currentImage, settings, thumb, blobUrlCache,
                 blobUrlToDataUrlMap, minted, now, ld, app, tasks, timers, got>>

-----------------------------------------------------------------------------
(* Loading settings written by any earlier version: the stores hold one
   settings object whose fields are each absent, of a wrong type or valid *)

\* absent, of a wrong type, valid (and not the default)
Field(valid) == {JUndef, JStr("true"), valid}

PersistedAppObjects ==
  [showWeather : Field(JBool(FALSE)), showCalendar : Field(JBool(FALSE)),
   showTrendingArticles : Field(JBool(FALSE)),
   fontColor : {JUndef, JStr("red"), JStr("black")},
   showWeatherLocation : Field(JBool(FALSE)),
   searchEngine : {JUndef, JNum(1), JStr("ask"), JStr("brave")},
   showAnalogClock : Field(JBool(TRUE))]

PersistedBackgroundObjects ==
  [shuffle : Field(JBool(FALSE)),
   changeInterval : {JUndef, JStr("5"), JNum(30)},
   showOverlay : Field(JBool(TRUE)), changeByTime : Field(JBool(TRUE)),
   selectedImageUrl : {JUndef, JNum(1), JNull, JStr(RemoteA.url)}]

InitSettings ==
  /\ MemoryInit
  /\ thumb = ""
  /\ \/ \E o \in PersistedAppObjects :
          db = [images |-> NoImages, settings |-> NoBackgroundSettings,
                app |-> [present |-> TRUE, obj |-> o]]
     \/ \E o \in PersistedBackgroundObjects, im \in {NoImages, StoredImages(<<RemoteA>>)} :
          db = [images |-> im, settings |-> [present |-> TRUE, obj |-> o],
                app |-> NoAppSettings]

NextSettings ==
  \/ AppMount
  \/ AppLoaded
  \/ \E p \in AppSettingsInputs : AppUpdateSettings(p)
  \/ Mount
  \/ LoadImagesRead
  \/ LoadSettingsRead
  \/ LoadSeedDone

SpecSettings == InitSettings /\ [][NextSettings]_vars

-----------------------------------------------------------------------------
(* The handle cache called directly, as page.tsx:90 and media-utils.ts:28
   do: getCachedBlobUrl(url).then(...) *)

Payloads ==
  { "data:image/png;base64,AAAA",    \* base64, decodes
    "data:image/png;base64,@@",      \* base64, atob throws
    "data:text/plain,hi",            \* not base64: fetch
    "data:image/png;base64,",        \* no data part: the match fails, fetch
    "https://example.com/a.png",     \* a remote URL
    BlobUrl(1) }                     \* a handle

\* The call: it returns, or is suspended in fetch.  cur is the last thing
\* that happened: the call of cur.url returned ("getCachedBlobUrl", pre =
\* through the catch block) or was suspended ("fetch").
ResolverCall(payload) ==
  /\ hist.ops < MaxCalls
  /\ LET r == GetCachedBlobUrl(payload, Caches)
     IN IF r.pending
          THEN /\ tasks' = Append(tasks, Task("call", payload, "", "", << >>,
                                              settings, Null))
               /\ UNCHANGED <<got, blobUrlCache, blobUrlToDataUrlMap, minted>>
        ELSE /\ got' = got \cup {<<payload, r.url>>}
             /\ SetCaches(r.c)
             /\ UNCHANGED tasks
  /\ cur' = LET r == GetCachedBlobUrl(payload, Caches)
            IN [op |-> IF r.pending THEN "fetch" ELSE "getCachedBlobUrl",
                url |-> payload, pre |-> r.threw, solo |-> tasks = << >>]
  /\ hist' = [hist EXCEPT !.ops = @ + 1]
  /\ UNCHANGED <<images, currentImage, settings, appSettings, db, thumb, now, ld,
                 app, timers>>

\* The fetch settled
ResolverCallSettled(i) ==
  /\ i \in DOMAIN tasks
  /\ tasks[i].kind = "call"
  /\ \E fetched \in BOOLEAN :
       LET r == FetchSettled(tasks[i].url, fetched, Caches)
       IN /\ got' = got \cup {<<tasks[i].url, r.url>>}
          /\ SetCaches(r.c)
          /\ cur' = [op |-> "getCachedBlobUrl", url |-> tasks[i].url,
                     pre |-> ~fetched, solo |-> Len(tasks) = 1]
  /\ tasks' = Without(tasks, i)
  /\ UNCHANGED <<images, currentImage, settings, appSettings, db, thumb, now, ld,
                 app, timers, hist>>

InitResolver ==
  /\ MemoryInit
  /\ thumb = ""
  /\ db = [images |-> NoImages, settings |-> NoBackgroundSettings,
           app |-> NoAppSettings]

NextResolver ==
  \/ \E p \in Payloads : ResolverCall(p)
  \/ \E i \in DOMAIN tasks : ResolverCallSettled(i)

SpecResolver == InitResolver /\ [][NextResolver]_vars

-----------------------------------------------------------------------------
(* Properties *)

\* The durable url of what is displayed
Selected == SearchUrl(currentImage, blobUrlToDataUrlMap)

\* A session in which no handler has been called yet, loaded to the end
\* without a store failure
Restored == cur = NoOp /\ Idle /\ ~hist.failed

\* C1: whenever the load has finished and no handler call is in progress,
\* currentImage is null exactly when images is empty, and otherwise the
\* durable url behind currentImage is the url of an entry of images.
SelectionInvariant ==
  Idle =>
    /\ (currentImage = Null) <=> (images = << >>)
    /\ currentImage # Null => Selected \in Urls(images)

\* C2: once the session that added entries has been reloaded and the new
\* session has loaded to the end, with every call so far made when nothing
\* else was in progress and no store failure ever, each entry added and not
\* removed is in images with the url and the thumbnail it was added with.
AddReloadRoundTrip ==
  (hist.clean /\ hist.reloads >= 1 /\ Restored) =>
    \A a \in hist.added :
      \E i \in DOMAIN images :
        images[i].url = a.url /\ images[i].thumbnail = a.thumbnail

\* C2 witness: a reloaded session holding an added video entry with its
\* thumbnail
AddReloadRoundTripWitness ==
  /\ hist.clean /\ hist.reloads >= 1 /\ Restored
  /\ \E a \in hist.added : a.thumbnail # "" /\ StartsWith(a.url, "data:")

GoodField(f, v) ==
  CASE f = "fontColor" -> v \in {JStr("white"), JStr("black")}
    [] f = "searchEngine" -> TypeOf(v) = "string" /\ v.s \in SearchEngines
    [] f = "changeInterval" -> TypeOf(v) = "number"
    [] f = "selectedImageUrl" -> TypeOf(v) \in {"string", "null"}
    [] OTHER -> TypeOf(v) = "boolean"

Held(v) ==
  CASE TypeOf(v) = "boolean" -> v.b
    [] TypeOf(v) = "number" -> v.n
    [] TypeOf(v) = "string" -> v.s
    [] OTHER -> Null

\* The fields without which the code takes the stored object for invalid
RequiredApp == {"showWeather", "showCalendar", "showTrendingArticles", "fontColor"}
RequiredBackground == {"shuffle", "changeInterval"}

\* loaded is what the load made of the stored object o, given the defaults:
\* a bad field has its default, the others what is stored
OneFieldDefaulted(o, loaded, defaults) ==
  \A f \in DOMAIN o :
    (~GoodField(f, o[f]) /\ \A g \in DOMAIN o \ {f} : GoodField(g, o[g])) =>
      /\ loaded[f] = defaults[f]
      /\ \A g \in DOMAIN o \ {f} : loaded[g] = Held(o[g])

FieldsDefaulted(o, loaded, defaults, required) ==
  IF \A f \in required : GoodField(f, o[f])
    THEN \A f \in DOMAIN o :
           loaded[f] = IF GoodField(f, o[f]) THEN Held(o[f]) ELSE defaults[f]
  ELSE loaded = defaults

\* The provider, and the hook, have loaded a stored settings object and no
\* settings were changed since
AppReady ==
  app.pc = "ready" /\ app.ok /\ app.stored.present /\ cur = NoOp
BackgroundReady ==
  ld.pc = "done" /\ ~hist.failed /\ ld.storedSettings.present /\ cur = NoOp

\* C4 as stated: when exactly one field of the stored settings object is
\* absent or of a wrong type, the loaded settings have the default in that
\* field and the stored value in every other field.
SettingsMergeSafety ==
  /\ AppReady => OneFieldDefaulted(app.stored.obj, appSettings, InitialAppSettings)
  /\ BackgroundReady => OneFieldDefaulted(ld.storedSettings.obj, settings,
                                          InitialBackgroundSettings)

\* C4: when the required fields of the stored settings object (showWeather,
\* showCalendar, showTrendingArticles, fontColor; shuffle, changeInterval)
\* are all valid, each other field that is absent or of a wrong type has its
\* default and every valid field its stored value; when a required field is
\* absent or wrong, the settings are the defaults in every field.
SettingsMergeSafetyOptionalFields ==
  /\ AppReady => FieldsDefaulted(app.stored.obj, appSettings, InitialAppSettings,
                                 RequiredApp)
  /\ BackgroundReady => FieldsDefaulted(ld.storedSettings.obj, settings,
                                        InitialBackgroundSettings, RequiredBackground)

\* C4 witness: an app settings object with only searchEngine unsupported has
\* been loaded, the stored values kept
SettingsMergeSafetyWitness ==
  /\ AppReady
  /\ app.stored.obj.searchEngine = JStr("ask")
  /\ \A f \in DOMAIN app.stored.obj \ {"searchEngine"} :
       GoodField(f, app.stored.obj[f])
  /\ appSettings.searchEngine = "google"
  /\ ~appSettings.showWeather

\* C5 as stated: every call of getCachedBlobUrl on a data: payload returned
\* a handle that getDataUrlFromBlobUrl maps back to the payload.
IdempotentResolution ==
  \A g \in got :
    StartsWith(g[1], "data:") =>
      GetDataUrlFromBlobUrl(g[2], blobUrlToDataUrlMap) = g[1]

\* C5: every call of getCachedBlobUrl on a data: payload returned either a
\* blob: handle that getDataUrlFromBlobUrl maps back to the payload, or the
\* payload itself, which getDataUrlFromBlobUrl maps to nothing.
IdempotentResolutionOfHandles ==
  \A g \in got :
    StartsWith(g[1], "data:") =>
      IF StartsWith(g[2], "blob:")
        THEN GetDataUrlFromBlobUrl(g[2], blobUrlToDataUrlMap) = g[1]
      ELSE g[2] = g[1] /\ GetDataUrlFromBlobUrl(g[2], blobUrlToDataUrlMap) = Null

\* C5 witness: overlapping calls on one payload of the fetch path returned
\* two handles, and a payload of the base64 path returned a handle
IdempotentResolutionWitness ==
  /\ \E g1, g2 \in got :
       /\ g1[1] = "data:text/plain,hi" /\ g2[1] = g1[1]
       /\ g1[2] # g2[2]
       /\ StartsWith(g1[2], "blob:") /\ StartsWith(g2[2], "blob:")
  /\ \E g \in got : g[1] = "data:image/png;base64,AAAA" /\ StartsWith(g[2], "blob:")

\* C6: when the stored images were absent or an empty array and no store
\* call failed, the load ends with images the four defaults default-1 ..
\* default-4 in this order, the same list stored, and the first default
\* displayed.
FirstRunSeeding ==
  (Restored /\ (~ld.storedImages.present \/ ld.storedImages.items = << >>)) =>
    /\ images = DEFAULT_BACKGROUND_IMAGES
    /\ [i \in DOMAIN images |-> images[i].id]
         = <<"default-1", "default-2", "default-3", "default-4">>
    /\ db.images = StoredImages(DEFAULT_BACKGROUND_IMAGES)
    /\ currentImage = "/screenshot.png"

\* C6 witness: the load found an empty array and has seeded the defaults
FirstRunSeedingWitness ==
  /\ Restored
  /\ ld.storedImages.present /\ ld.storedImages.items = << >>
  /\ Len(images) = 4
  /\ currentImage = images[1].url

Precedence(storedImages, storedSettings) ==
  LET s == LoadedBackgroundSettings(storedSettings)
      list == storedImages.items
  IN IF /\ s.valid
        /\ s.value.selectedImageUrl # Null
        /\ s.value.selectedImageUrl \in Urls(list)
       THEN s.value.selectedImageUrl
     ELSE list[1].url

\* C8: when the load has read a non-empty list of entries without a store
\* failure, the entry displayed at its end is the stored selection if the
\* stored settings name the url of a stored entry, and the first stored
\* entry in every other case (no settings, no selection, a selection that
\* matches no entry, settings that fail validation).
StartupPrecedence ==
  (/\ Restored
   /\ ld.storedImages.present /\ ld.storedImages.items # << >>
   /\ \A i \in DOMAIN ld.storedImages.items :
        IsBackgroundImage(ld.storedImages.items[i])) =>
    /\ currentImage # Null
    /\ Selected = Precedence(ld.storedImages, ld.storedSettings)

\* C9: from a successful write of selectImage(u) until the settings are
\* written again, the stored settings hold selectedImageUrl = u; and a later
\* session that has loaded to the end without a store failure, u being the
\* url of an entry it read from the store, displays u.
ManualSelectionSurvivesReload ==
  hist.sel # Null =>
    /\ db.settings.present
    /\ db.settings.obj.selectedImageUrl = JStr(hist.sel)
    /\ (/\ hist.reloads >= 1 /\ Restored
        /\ ld.storedImages.present
        /\ hist.sel \in Urls(ld.storedImages.items)) =>
         /\ currentImage # Null
         /\ Selected = hist.sel

\* C9 witness: a data: entry was selected, the page reloaded, and a handle
\* of that entry is displayed although it is not the first entry
ManualSelectionSurvivesReloadWitness ==
  /\ hist.sel # Null
  /\ hist.reloads >= 1 /\ Restored
  /\ StartsWith(hist.sel, "data:")
  /\ StartsWith(currentImage, "blob:")
  /\ Selected = hist.sel
  /\ images[1].url # hist.sel

\* The selection as selectImage leaves it for the entry of url u: in
\* memory, stored, and the thumbnail slot
SelectionRecorded(u) ==
  /\ settings.selectedImageUrl = u
  /\ db.settings.present /\ db.settings.obj.selectedImageUrl = JStr(u)
  /\ FirstWithUrl(images, u).thumbnail # "" => thumb = FirstWithUrl(images, u).thumbnail

-----------------------------------------------------------------------------
(* The rotation timer: the settings that govern it are changed, entries
   come and go, the timer ticks, the component is unmounted *)

\* React unmounts the component: the cleanup of the rotation effect runs
\* (line 728).  The mount effect has no cleanup: a load or a handler call
\* that is suspended goes on, its state updates are dropped by React (the
\* variables then hold values nothing renders), its store writes are not.
Unmount ==
  /\ Mounted
  /\ ld' = [ld EXCEPT !.unmounted = TRUE]
  /\ timers' = ClearInterval(timers, settings, Len(images))
  /\ UNCHANGED <<images, currentImage, settings, appSettings, db, thumb,
                 blobUrlCache, blobUrlToDataUrlMap, minted, now, app, tasks,
                 got, cur, hist>>

\* What the number input of page.tsx:832-842 and the checkboxes hand to
\* updateSettings: Number(e.target.value) may be zero or negative
RotationInputs ==
  { [changeByTime |-> TRUE], [shuffle |-> FALSE], [changeInterval |-> 0],
    [changeInterval |-> -1], [changeInterval |-> 10] }

\* The stores of a first run, of one entry, and of a rotating library
InitRotation ==
  /\ MemoryInit
  /\ \E p \in { Persisted(NoImages, NoBackgroundSettings, ""),
                 Persisted(StoredImages(<<RemoteA>>), RotatingSettings, ""),
                 Persisted(StoredImages(<<RemoteA, VideoB>>), RotatingSettings,
                           VideoB.thumbnail) } :
       /\ db = [images |-> p.images, settings |-> p.settings, app |-> NoAppSettings]
       /\ thumb = p.thumb

NextRotation ==
  \/ Mount
  \/ LoadImagesRead
  \/ LoadSettingsRead
  \/ LoadSeedDone
  \/ \E p \in RotationInputs : UpdateSettings(p)
  \/ AddImage("https://example.com/a.png", "")
  \/ \E i \in DOMAIN tasks : AddWritten(i)
  \/ \E i \in DOMAIN images : RemoveImage(images[i].id)
  \/ \E i \in DOMAIN tasks : RemoveWritten(i)
  \/ \E n \in 0..Len(images) : RotationTick(n)
  \/ Unmount

SpecRotation == InitRotation /\ [][NextRotation]_vars

\* C11: whenever a rotation timer is armed, changeByTime and shuffle are
\* true, images has at least two entries and changeInterval is positive.
TimerArmedOnlyWhenEnabled ==
  timers # << >> =>
    /\ settings.changeByTime
    /\ settings.shuffle
    /\ Len(images) >= 2
    /\ settings.changeInterval > 0

\* C12: at most one rotation timer exists at any time; after the unmount
\* none exists and no tick calls selectRandomImage any more.
AtMostOneTimer ==
  /\ [](Len(timers) <= 1)
  /\ [](ld.unmounted => timers = << >>)
  /\ [][ld.unmounted => cur' = cur]_vars

\* C12 witness: a timer was armed with one period, the period was changed,
\* and one timer with the new period is armed
AtMostOneTimerWitness ==
  /\ Len(timers) = 1
  /\ timers[1] = 10 * 60 * 1000
  /\ cur.op = "updateSettings"
  /\ ~ld.unmounted

\* --------------------------------------------------------------------------
\* The resolver's pass-through and failure paths (lines 276-345)

\* C13 as stated: getCachedBlobUrl returns its argument unchanged, without
\* fetching, minting or adding to either cache map, when the argument is a
\* blob: handle and also when it is any other URL that is not a data: URL.
PassThrough ==
  /\ \A g \in got : ~StartsWith(g[1], "data:") => g[2] = g[1]
  /\ \A e \in blobUrlCache : StartsWith(e[1], "data:")
  /\ \A e \in blobUrlToDataUrlMap : StartsWith(e[2], "data:")
  /\ \A i \in DOMAIN tasks : StartsWith(tasks[i].url, "data:")

\* C13 amended: getCachedBlobUrl returns its argument unchanged, without
\* fetching, minting or adding to either cache map, when the argument is a
\* blob: handle; a remote URL is fetched, and the call returns either that URL
\* unchanged (the fetch failed) or a handle the reverse map takes back to it.
PassThroughOfHandles ==
  /\ [](\A g \in got : StartsWith(g[1], "blob:") => g[2] = g[1])
  /\ [](\A e \in blobUrlCache : ~StartsWith(e[1], "blob:"))
  /\ [](\A e \in blobUrlToDataUrlMap : ~StartsWith(e[2], "blob:"))
  /\ [](\A i \in DOMAIN tasks : ~StartsWith(tasks[i].url, "blob:"))
  /\ [](\A g \in got :
          ~StartsWith(g[1], "data:") /\ ~StartsWith(g[1], "blob:")
            => g[2] = g[1] \/ <<g[2], g[1]>> \in blobUrlToDataUrlMap)
  /\ [][StartsWith(cur'.url, "blob:") /\ hist'.ops # hist.ops
          => /\ cur'.op = "getCachedBlobUrl"
             /\ got' = got \cup {<<cur'.url, cur'.url>>}
             /\ UNCHANGED <<blobUrlCache, blobUrlToDataUrlMap, minted, tasks>>]_vars

PassThroughOfHandlesWitness ==
  /\ cur.op = "getCachedBlobUrl"
  /\ cur.url = BlobUrl(1)
  /\ minted >= 1
  /\ <<BlobUrl(1), BlobUrl(1)>> \in got
  /\ \E g \in got : g[1] = "https://example.com/a.png" /\ g[2] # g[1]

\* C14: a call of getCachedBlobUrl that runs into a failure (atob throws, or
\* the fetch or response.blob() rejects) resolves to its argument, and leaves
\* both cache maps and the count of minted handles exactly as they were.
FailurePolicy ==
  [][cur'.op = "getCachedBlobUrl" /\ cur'.pre
       => /\ got' = got \cup {<<cur'.url, cur'.url>>}
          /\ UNCHANGED <<blobUrlCache, blobUrlToDataUrlMap, minted>>]_vars

FailurePolicyWitness ==
  /\ cur.op = "getCachedBlobUrl"
  /\ cur.pre
  /\ cur.url = "https://example.com/a.png"
  /\ <<"data:image/png;base64,@@", "data:image/png;base64,@@">> \in got
  /\ blobUrlCache # {}

\* --------------------------------------------------------------------------
\* What is stored is the payload, never the handle

\* C15: no entry's url, in memory or persisted, and no persisted
\* settings.selectedImageUrl is a handle (a blob: url); the entry a finished
\* addImage(url), called when nothing else was in progress, appended has url
\* as its url.
HandlesNeverPersisted ==
  /\ \A i \in DOMAIN images : ~StartsWith(images[i].url, "blob:")
  /\ \A i \in DOMAIN db.images.items :
       ~StartsWith(db.images.items[i].url, "blob:")
  /\ db.settings.obj.selectedImageUrl.t = "string"
       => ~StartsWith(db.settings.obj.selectedImageUrl.s, "blob:")
  /\ (cur.op = "addImage" /\ cur.solo /\ Idle)
       => images # << >> /\ images[Len(images)].url = cur.url

\* C15 witness: a data: entry was added and a data: entry selected; the
\* display shows a minted handle while the store holds the payloads
HandlesNeverPersistedWitness ==
  /\ Idle
  /\ cur.op = "selectImage"
  /\ minted >= 1
  /\ currentImage # Null /\ StartsWith(currentImage, "blob:")
  /\ \E a \in hist.added : StartsWith(a.url, "data:")
  /\ db.settings.obj.selectedImageUrl.t = "string"
  /\ StartsWith(db.settings.obj.selectedImageUrl.s, "data:")

\* --------------------------------------------------------------------------
\* updateSettings of the provider (139-147) and of the hook (708-718)

InitUpdate ==
  /\ MemoryInit
  /\ thumb = ""
  /\ db \in { [images |-> NoImages, settings |-> NoBackgroundSettings,
               app |-> NoAppSettings],
              [images |-> StoredImages(<<RemoteA, VideoB>>),
               settings |-> RotatingSettings,
               app |-> AppBlob([InitialAppSettings EXCEPT !.fontColor = "black"])] }

NextUpdate ==
  \/ AppMount
  \/ AppLoaded
  \/ \E p \in AppSettingsInputs : AppUpdateSettings(p)
  \/ Mount
  \/ LoadImagesRead
  \/ LoadSettingsRead
  \/ LoadSeedDone
  \/ \E p \in SettingsInputs \cup RotationInputs : UpdateSettings(p)

SpecUpdate == InitUpdate /\ [][NextUpdate]_vars

\* field by field: the argument's value where the argument has the field,
\* the previous value elsewhere
Overridden(previous, partial, result) ==
  /\ DOMAIN result = DOMAIN previous
  /\ \A f \in DOMAIN previous :
       result[f] = IF f \in DOMAIN partial THEN partial[f] ELSE previous[f]

\* C16: a call updateSettings(partial), of the provider or of the hook,
\* leaves the in-memory settings equal to the previous settings overridden by
\* partial, whether its write succeeds or fails; the write, when it succeeds,
\* stores that same object, and when it fails leaves the store as it was.
SettingsMutation ==
  [][hist'.ops = hist.ops + 1 =>
       /\ cur'.op = "updateSettings" =>
            /\ Overridden(settings, hist'.partial[1], settings')
            /\ appSettings' = appSettings
            /\ IF hist'.fails = hist.fails
                 THEN db' = [db EXCEPT !.settings = BackgroundBlob(settings')]
                 ELSE db' = db
       /\ cur'.op = "updateAppSettings" =>
            /\ Overridden(appSettings, hist'.partial[1], appSettings')
            /\ settings' = settings
            /\ IF hist'.fails = hist.fails
                 THEN db' = [db EXCEPT !.app = AppBlob(appSettings')]
                 ELSE db' = db]_vars

\* C16 witness: the hook's write failed and the provider's succeeded, and
\* both aggregates hold the merged objects
SettingsMutationWitness ==
  /\ cur.op = "updateAppSettings"
  /\ hist.ops = 2 /\ hist.fails = 1
  /\ appSettings.searchEngine = "bing" /\ db.app = AppBlob(appSettings)
  /\ settings.showOverlay /\ db.settings # BackgroundBlob(settings)

\* --------------------------------------------------------------------------
\* Store failures at startup and in the mutators

\* What a mutator called when nothing else was in progress leaves in images
\* and currentImage once it has finished, whatever its write did
MutatorResult ==
  /\ (cur.op = "addImage" /\ cur.solo /\ Idle) =>
       /\ images # << >> /\ images[Len(images)].url = cur.url
       /\ cur.pre => Len(images) = 1 /\ currentImage # Null /\ Selected = cur.url
  /\ (cur.op = "removeImage" /\ cur.solo /\ Idle) =>
       /\ images = << >> => currentImage = Null
       /\ (cur.pre /\ images # << >> /\ cur.url \notin Urls(images))
            => currentImage # Null /\ Selected = images[1].url
  /\ (cur.op = "selectImage" /\ cur.solo /\ Idle) =>
       /\ currentImage # Null /\ Selected = cur.url
       /\ settings.selectedImageUrl = cur.url

\* C17: a store failure at startup seeding or in a mutator is caught, and
\* images and currentImage end as on success: a finished load that seeded
\* (it set a list while the store holds no entries, the write of the
\* defaults having failed) leaves images the four defaults and the first
\* default displayed; a finished mutator leaves what it leaves on success.
OptimisticFailure ==
  /\ (cur = NoOp /\ Idle /\ NeedsSeed(db.images) /\ images # << >>) =>
       /\ images = DEFAULT_BACKGROUND_IMAGES
       /\ currentImage = DEFAULT_BACKGROUND_IMAGES[1].url
  /\ MutatorResult

-----------------------------------------------------------------------------
(* The store adapter, indexeddb-utils.ts, over the IndexedDB database itself.

   In the adapter's specifications db is the whole database "better-tab":
   whether window.indexedDB exists, the version, the object stores that exist
   (each a map from key to value), and whether another tab holds a
   connection it opened at an older version.  tasks are the adapter calls
   whose transaction has not finished, got the settled promise the caller
   has not yet gone on from, cur the last call, hist.expect what the contract says each (store, key) holds. *)

\* Line 9
DB_VERSION == 2

\* Lines 14-18
STORE_NAMES == {"app_settings", "background_images", "background_settings"}

\* request.result of a get for a key that is not there
Undefined == "<undefined>"

\* The (store, key) pairs the calls are made on: the keys the hooks use
\* (STORAGE_KEY_IMAGES, STORAGE_KEY_SETTINGS) and a second key in one store
Cells ==
  { <<"background_images", "images">>, <<"background_settings", "settings">>,
    <<"background_settings", "images">> }

Values == {"v1", "v2"}

\* store.get(key)
Lookup(stores, c, k) ==
  IF c \in DOMAIN stores /\ MapHas(stores[c], k) THEN MapGet(stores[c], k)
  ELSE Undefined

\* store.put(value, key) and store.delete(key), as the transaction commits them
Put(stores, c, k, v) == [stores EXCEPT ![c] = MapSet(@, k, v)]
Delete(stores, c, k) == [stores EXCEPT ![c] = {e \in @ : e[1] # k}]

\* OnUpgradeNeeded with every declared store created anew
OnUpgradeNeededRecreate(stores) ==
  [c \in DOMAIN stores \cup STORE_NAMES |->
     IF c \in STORE_NAMES THEN {} ELSE stores[c]]

\* request.onupgradeneeded, lines 42-55: each declared store is created
\* unless the database has it
OnUpgradeNeeded(stores) ==
  [c \in DOMAIN stores \cup STORE_NAMES |->
     IF c \in DOMAIN stores THEN stores[c] ELSE {}]

\* What an earlier build may have left: no database (version 0), a database
\* of version 1 with any subset of the declared stores and maybe a store no
\* longer declared, each with a value, or the database of this build
OldStores(names) == [c \in names |-> {<<"settings", "old">>}]

PriorDatabases ==
  { [available |-> FALSE, version |-> 0, stores |-> OldStores({}), held |-> FALSE],
    [available |-> TRUE, version |-> 0, stores |-> OldStores({}), held |-> FALSE],
    [available |-> TRUE, version |-> DB_VERSION, stores |-> OldStores(STORE_NAMES),
     held |-> FALSE] }
  \cup { [available |-> TRUE, version |-> 1, stores |-> OldStores(names),
          held |-> h] : names \in SUBSET (STORE_NAMES \cup {"legacy"}),
                        h \in BOOLEAN }

InitStore ==
  /\ images = << >>
  /\ currentImage = Null
  /\ settings = InitialBackgroundSettings
  /\ appSettings = InitialAppSettings
  /\ thumb = ""
  /\ blobUrlCache = {}
  /\ blobUrlToDataUrlMap = {}
  /\ minted = 0
  /\ now = 0
  /\ ld = IdleLoad
  /\ app = IdleAppLoad
  /\ tasks = << >>
  /\ timers = << >>
  /\ got = {}
  /\ cur = NoOp
  /\ db \in PriorDatabases
  /\ hist = [ops |-> 0, fails |-> 0,
             expect |-> [cell \in Cells |-> Lookup(db.stores, cell[1], cell[2])]]

\* A promise an adapter call returned is still pending
Pending(t) == t.pc \in {"open", "blocked", "request"}

Settled(t, outcome, value) ==
  [kind |-> t.kind, store |-> t.store, key |-> t.key,
   outcome |-> outcome, value |-> value,
   expect |-> hist.expect[<<t.store, t.key>>]]

StoreUnchanged ==
  UNCHANGED <<images, currentImage, settings, appSettings, thumb, blobUrlCache,
              blobUrlToDataUrlMap, minted, now, ld, app, timers>>

\* setItem / getItem / removeItem is called, by a caller that awaited its
\* previous call and has its result: openDatabase (26-32) rejects when there is no
\* window.indexedDB, otherwise it issues indexedDB.open(DB_NAME, DB_VERSION).
AdapterCall(kind, c, k, v) ==
  /\ hist.ops < MaxCalls
  /\ \A i \in DOMAIN tasks : ~Pending(tasks[i])
  /\ LET t == [kind |-> kind, store |-> c, key |-> k, value |-> v, pc |-> "open"]
     IN IF ~db.available
          THEN got' = {Settled(t, "rejected", Undefined)} /\ tasks' = tasks
        ELSE tasks' = Append(tasks, t) /\ got' = {}
  /\ cur' = [op |-> kind, url |-> k, pre |-> db.available, solo |-> tasks = << >>]
  /\ hist' = [hist EXCEPT !.ops = @ + 1]
  /\ UNCHANGED db
  /\ StoreUnchanged

\* The open request is processed.  With the database at an older version
\* and another connection open, the request gets a `blocked` event, for which
\* openDatabase registers no handler, and waits.  Otherwise: onerror (34-36),
\* or onupgradeneeded when the version is older (42-55) and onsuccess
\* (38-40); the awaiting call goes on in the same task with db.transaction,
\* which throws for a store that does not exist, and issues its request.
OpenSettled(i) ==
  /\ i \in DOMAIN tasks
  /\ tasks[i].pc = "open"
  /\ IF db.version < DB_VERSION /\ db.held
       THEN /\ tasks' = [tasks EXCEPT ![i].pc = "blocked"]
            /\ UNCHANGED <<db, got, hist>>
     ELSE \E ok \in Outcomes :
            LET upgraded == IF db.version < DB_VERSION
                              THEN [db EXCEPT !.version = DB_VERSION,
                                              !.stores = OnUpgradeNeeded(@)]
                            ELSE db
            IN IF ~ok
                 THEN /\ got' = got \cup {Settled(tasks[i], "rejected", Undefined)}
                      /\ tasks' = Without(tasks, i)
                      /\ hist' = [hist EXCEPT !.fails = @ + 1]
                      /\ UNCHANGED db
               ELSE /\ db' = upgraded
                    /\ hist' = hist
                    /\ IF tasks[i].store \in DOMAIN upgraded.stores
                         THEN /\ tasks' = [tasks EXCEPT ![i].pc = "request"]
                              /\ got' = got
                       ELSE /\ got' = got \cup
                                        {Settled(tasks[i], "rejected", Undefined)}
                            /\ tasks' = Without(tasks, i)
  /\ UNCHANGED cur
  /\ StoreUnchanged

\* The other tab closes its connection
OtherTabCloses ==
  /\ db.held
  /\ db' = [db EXCEPT !.held = FALSE]
  /\ UNCHANGED <<tasks, got, cur, hist>>
  /\ StoreUnchanged

\* The blocked open request goes on once no other connection is open
OpenUnblocked(i) ==
  /\ i \in DOMAIN tasks
  /\ tasks[i].pc = "blocked"
  /\ ~db.held
  /\ tasks' = [tasks EXCEPT ![i].pc = "open"]
  /\ UNCHANGED <<db, got, cur, hist>>
  /\ StoreUnchanged

\* The request is processed, once the earlier write transactions on its
\* store have finished: request.onerror rejects (76-78, 108-110, 139-141) and
\* the transaction aborts; request.onsuccess resolves (80-82, 112-114,
\* 143-145), a get with request.result.  The promise of a write is resolved
\* here, while its transaction has yet to commit.
RequestSettled(i) ==
  /\ i \in DOMAIN tasks
  /\ tasks[i].pc = "request"
  /\ \A j \in DOMAIN tasks : tasks[j].pc = "commit" => tasks[j].store # tasks[i].store
  /\ LET t == tasks[i]
     IN \E ok \in Outcomes :
          IF ~ok
            THEN /\ got' = got \cup {Settled(t, "rejected", Undefined)}
                 /\ tasks' = Without(tasks, i)
                 /\ hist' = [hist EXCEPT !.fails = @ + 1]
                 /\ UNCHANGED db
          ELSE IF t.kind = "getItem"
            THEN /\ got' = got \cup
                             {Settled(t, "resolved", Lookup(db.stores, t.store, t.key))}
                 /\ tasks' = Without(tasks, i)
                 /\ UNCHANGED <<db, hist>>
          ELSE /\ got' = got \cup {Settled(t, "resolved", Undefined)}
               /\ tasks' = [tasks EXCEPT ![i].pc = "commit"]
               /\ hist' = [hist EXCEPT !.expect[<<t.store, t.key>>] =
                             IF t.kind = "setItem" THEN t.value ELSE Undefined]
               /\ UNCHANGED db
  /\ UNCHANGED cur
  /\ StoreUnchanged

\* The write transaction finishes: it commits, and transaction.oncomplete
\* closes the connection (84-86, 147-149), or the commit fails (quota) and
\* the transaction aborts, for which no handler is registered.
Committed(i) ==
  /\ i \in DOMAIN tasks
  /\ tasks[i].pc = "commit"
  /\ LET t == tasks[i]
     IN \E ok \in Outcomes :
          /\ db' = IF ~ok THEN db
                   ELSE [db EXCEPT !.stores =
                           IF t.kind = "setItem" THEN Put(@, t.store, t.key, t.value)
                           ELSE Delete(@, t.store, t.key)]
          /\ hist' = IF ok THEN hist ELSE [hist EXCEPT !.fails = @ + 1]
  /\ tasks' = Without(tasks, i)
  /\ UNCHANGED <<got, cur>>
  /\ StoreUnchanged

AdapterInputs ==
  { <<"setItem", cell, v>> : cell \in Cells, v \in Values }
  \cup { <<kind, cell, Undefined>> : kind \in {"getItem", "removeItem"},
                                     cell \in Cells }

NextStore ==
  \/ \E a \in AdapterInputs : AdapterCall(a[1], a[2][1], a[2][2], a[3])
  \/ \E i \in DOMAIN tasks : OpenSettled(i)
  \/ OtherTabCloses
  \/ \E i \in DOMAIN tasks : OpenUnblocked(i)
  \/ \E i \in DOMAIN tasks : RequestSettled(i)
  \/ \E i \in DOMAIN tasks : Committed(i)

SpecStore == InitStore /\ [][NextStore]_vars

\* The browser processes every request and finishes every transaction, and
\* lets a blocked open go on once it can; what the other tab does is up to
\* the other tab.
SpecStoreLive ==
  /\ SpecStore
  /\ WF_vars(\E i \in DOMAIN tasks : OpenSettled(i))
  /\ WF_vars(\E i \in DOMAIN tasks : OpenUnblocked(i))
  /\ WF_vars(\E i \in DOMAIN tasks : RequestSettled(i))
  /\ WF_vars(\E i \in DOMAIN tasks : Committed(i))

\* C18: every getItem(c, k) that resolved returned what the awaited calls
\* before it left under (c, k): the value of the last setItem(c, k, v) that
\* resolved, undefined after a removeItem(c, k) that resolved and for a key
\* never written; calls on other (collection, key) pairs do not change it.
StoreRoundTrip ==
  \A g \in got :
    g.kind = "getItem" /\ g.outcome = "resolved" => g.value = g.expect

\* C19: a step never removes an object store; the step in which
\* openDatabase upgrades the database (from no database or from an older
\* version with any subset of the stores) ends at DB_VERSION with the three
\* declared stores present and every store that was there still holding what
\* it held; at DB_VERSION the stores change only when a write commits; and a
\* call that has got past openDatabase finds the three declared stores.
SchemaUpgrade ==
  /\ [](\A i \in DOMAIN tasks :
          tasks[i].pc \in {"request", "commit"}
            => db.version = DB_VERSION /\ STORE_NAMES \subseteq DOMAIN db.stores)
  /\ [][/\ DOMAIN db.stores \subseteq DOMAIN db'.stores
        /\ db'.version # db.version =>
             /\ db'.version = DB_VERSION
             /\ STORE_NAMES \subseteq DOMAIN db'.stores
             /\ \A c \in DOMAIN db.stores : db'.stores[c] = db.stores[c]
        /\ (db.version = DB_VERSION /\ db'.stores # db.stores) =>
             \E i \in DOMAIN tasks :
               tasks[i].pc = "commit" /\ tasks' = Without(tasks, i)]_vars

\* C19 witness: a database of version 1 with one declared store and an
\* undeclared one has been upgraded
SchemaUpgradeWitness ==
  /\ db.version = DB_VERSION
  /\ hist.ops = 1
  /\ \E i \in DOMAIN tasks : tasks[i].pc = "request"
  /\ "legacy" \in DOMAIN db.stores
  /\ Lookup(db.stores, "legacy", "settings") = "old"
  /\ Lookup(db.stores, "background_settings", "settings") = "old"
  /\ db.stores["app_settings"] = {}
  /\ db.stores["background_images"] = {}

\* C20: whenever the promise of an adapter call is pending, later none is
EverySettles ==
  (\E i \in DOMAIN tasks : Pending(tasks[i]))
    ~> (\A i \in DOMAIN tasks : ~Pending(tasks[i]))

-----------------------------------------------------------------------------
(* The weather of the Clock component, components/clock.tsx.

   In this specification app is the component and the module's weatherCache:
   whether the effect of lines 199-389 is mounted, the weather displayed, and
   weatherCache.data / .promise; db is what is outside the page: the
   localStorage item weather_cache, the answer the weather provider gives now
   and what navigator.geolocation does; now is Date.now(); tasks are the
   position and fetch requests in flight; timers the weather interval; cur
   the last event; hist counts the ticks of the interval and the queries of
   the provider. *)

\* Line 145
CACHE_DURATION == 3600000

\* Line 380
WeatherInterval == 600000

NoWeather == "<null>"
Answers == {"sunny", "rain"}

NoPromise == [set |-> FALSE, settled |-> FALSE, value |-> NoWeather]

\* getWeatherFromStorage, lines 128-159: the item, unless it is absent or
\* older than CACHE_DURATION, in which case it is removed
GetWeatherFromStorage(item, t) ==
  IF ~item.present THEN [data |-> NoWeather, item |-> item]
  ELSE IF t - item.timestamp > CACHE_DURATION
    THEN [data |-> NoWeather,
          item |-> [present |-> FALSE, data |-> NoWeather, timestamp |-> 0]]
  ELSE [data |-> item.data, item |-> item]

\* saveWeatherToStorage, lines 165-179
SaveWeatherToStorage(data, t) ==
  [present |-> TRUE, data |-> data, timestamp |-> t]

NoItem == [present |-> FALSE, data |-> NoWeather, timestamp |-> 0]

InitWeather ==
  /\ images = << >>
  /\ currentImage = Null
  /\ settings = InitialBackgroundSettings
  /\ appSettings = InitialAppSettings
  /\ thumb = ""
  /\ blobUrlCache = {}
  /\ blobUrlToDataUrlMap = {}
  /\ minted = 0
  /\ now = 0
  /\ ld = IdleLoad
  /\ tasks = << >>
  /\ timers = << >>
  /\ got = {}
  /\ cur = NoOp
  /\ app = [mounted |-> "no", weather |-> NoWeather, data |-> NoWeather,
            promise |-> NoPromise]
  /\ \E item \in {NoItem, SaveWeatherToStorage("sunny", 0),
                  SaveWeatherToStorage("sunny", 0 - CACHE_DURATION - 1)},
        answer \in Answers, geo \in {"none", "ok", "error", "denied"} :
       db = [weather_cache |-> item, provider |-> answer, geo |-> geo]
  /\ hist = [ticks |-> 0, queries |-> 0, fails |-> 0]

WeatherUnchanged ==
  UNCHANGED <<images, currentImage, settings, appSettings, thumb, blobUrlCache,
              blobUrlToDataUrlMap, minted, ld, got>>

\* setWeather: a state update of an unmounted component is dropped
SetWeather(a, w) == IF a.mounted = "yes" THEN [a EXCEPT !.weather = w] ELSE a

\* fetchWeather up to its first await, lines 221-384, called with weather
\* shown (hideWeather false, settings.showWeather true): the localStorage
\* item, then weatherCache.data, then a promise another call left in
\* weatherCache.promise; only then is the position, or with no
\* navigator.geolocation the provider, asked.
FetchWeather(a, op) ==
  LET stored == GetWeatherFromStorage(db.weather_cache, now')
  IN IF stored.data # NoWeather
       THEN /\ app' = SetWeather([a EXCEPT !.data = stored.data], stored.data)
            /\ db' = [db EXCEPT !.weather_cache = stored.item]
            /\ cur' = [op |-> op, url |-> "storage", pre |-> FALSE, solo |-> TRUE]
            /\ UNCHANGED tasks
     ELSE IF a.data # NoWeather
       THEN /\ app' = SetWeather(a, a.data)
            /\ db' = [db EXCEPT !.weather_cache = stored.item]
            /\ cur' = [op |-> op, url |-> "memory", pre |-> FALSE, solo |-> TRUE]
            /\ UNCHANGED tasks
     ELSE IF a.promise.set
       THEN /\ app' = IF a.promise.settled /\ a.promise.value # NoWeather
                        THEN SetWeather(a, a.promise.value)
                      ELSE a
            /\ db' = [db EXCEPT !.weather_cache = stored.item]
            /\ cur' = [op |-> op, url |-> "promise", pre |-> FALSE, solo |-> TRUE]
            /\ UNCHANGED tasks
     ELSE /\ app' = [a EXCEPT !.promise =
                       \* the finally of lines 366-369 has run before line 372
                       \* stores the promise, when the position is asked
                       [set |-> TRUE, settled |-> FALSE, value |-> NoWeather]]
          /\ db' = [db EXCEPT !.weather_cache = stored.item]
          /\ tasks' = Append(tasks, [kind |-> IF db.geo = "none" THEN "fetch"
                                              ELSE "position",
                                     via |-> IF db.geo = "none" THEN "direct"
                                             ELSE "geo"])
          /\ cur' = [op |-> op, url |-> "fetch", pre |-> TRUE, solo |-> TRUE]

\* The component mounts: the initializer of useState (186-195) and the
\* effect, which calls fetchWeather and arms the interval (373-380)
ClockMount ==
  /\ app.mounted = "no"
  /\ now' = now
  /\ LET stored == GetWeatherFromStorage(db.weather_cache, now)
         a == [app EXCEPT !.mounted = "yes",
                          !.data = IF stored.data # NoWeather THEN stored.data ELSE @,
                          !.weather = IF stored.data # NoWeather THEN stored.data
                                      ELSE app.data]
     IN FetchWeather(a, "mount")
  /\ timers' = <<WeatherInterval>>
  /\ UNCHANGED hist
  /\ WeatherUnchanged

\* The interval fires, ten minutes after the mount or the previous tick
WeatherTick ==
  /\ app.mounted = "yes"
  /\ timers # << >>
  /\ hist.ticks < MaxTicks
  /\ now' = now + timers[1]
  /\ FetchWeather(app, "tick")
  /\ hist' = [hist EXCEPT !.ticks = @ + 1]
  /\ UNCHANGED timers
  /\ WeatherUnchanged

\* The cleanup of the effect, lines 382-385
ClockUnmount ==
  /\ app.mounted = "yes"
  /\ app' = [app EXCEPT !.mounted = "gone"]
  /\ timers' = << >>
  /\ cur' = [op |-> "unmount", url |-> "", pre |-> FALSE, solo |-> TRUE]
  /\ UNCHANGED <<db, now, tasks, hist>>
  /\ WeatherUnchanged

\* The weather changes
ProviderChanges ==
  /\ tasks = << >>
  /\ \E answer \in Answers \ {db.provider} : db' = [db EXCEPT !.provider = answer]
  /\ cur' = [op |-> "provider", url |-> "", pre |-> FALSE, solo |-> TRUE]
  /\ UNCHANGED <<app, now, tasks, timers, hist>>
  /\ WeatherUnchanged

\* getCurrentPosition calls back: with a position or an error other than
\* PERMISSION_DENIED the provider is asked (273-280, 306-309); a denied
\* permission hides the weather and resolves the promise with null (300-305)
PositionSettled(i) ==
  /\ i \in DOMAIN tasks
  /\ tasks[i].kind = "position"
  /\ IF db.geo = "denied"
       THEN /\ app' = [SetWeather(app, NoWeather) EXCEPT
                         !.promise = [set |-> TRUE, settled |-> TRUE,
                                      value |-> NoWeather]]
            /\ tasks' = Without(tasks, i)
     ELSE /\ tasks' = [tasks EXCEPT ![i].kind = "fetch"]
          /\ app' = app
  /\ UNCHANGED <<db, now, timers, cur, hist>>
  /\ WeatherUnchanged

\* The provider answers: a well-formed answer is kept in weatherCache.data
\* and in localStorage and displayed, and resolves the promise; another
\* answer resolves it with null.  The fetch awaited directly (338-362) is
\* followed by the finally that clears weatherCache.promise.
FetchWeatherSettled(i) ==
  /\ i \in DOMAIN tasks
  /\ tasks[i].kind = "fetch"
  /\ \E ok \in Outcomes :
       LET value == IF ok THEN db.provider ELSE NoWeather
           promise == IF tasks[i].via = "direct" THEN NoPromise
                      ELSE [set |-> TRUE, settled |-> TRUE, value |-> value]
       IN /\ app' = IF ok
                      THEN [SetWeather(app, value) EXCEPT !.data = value,
                                                          !.promise = promise]
                    ELSE [app EXCEPT !.promise = promise]
          /\ db' = IF ok THEN [db EXCEPT !.weather_cache =
                                 SaveWeatherToStorage(value, now)]
                   ELSE db
          /\ hist' = [hist EXCEPT !.queries = @ + 1,
                                  !.fails = IF ok THEN @ ELSE @ + 1]
  /\ tasks' = Without(tasks, i)
  /\ UNCHANGED <<now, timers, cur>>
  /\ WeatherUnchanged

NextWeather ==
  \/ ClockMount
  \/ WeatherTick
  \/ ClockUnmount
  \/ ProviderChanges
  \/ \E i \in DOMAIN tasks : PositionSettled(i)
  \/ \E i \in DOMAIN tasks : FetchWeatherSettled(i)

SpecWeather == InitWeather /\ [][NextWeather]_vars

\* C21: while the Clock is mounted with weather shown, every tick of the
\* weather interval has led to a query of the provider, and once a tick has
\* been dealt with (nothing in flight, no query failed, the position not
\* denied) the weather displayed is the provider's current answer.
WeatherAutoUpdate ==
  (app.mounted = "yes" /\ tasks = << >> /\ db.geo # "denied" /\ hist.fails = 0)
    => /\ hist.queries >= hist.ticks
       /\ cur.op = "tick" => app.weather = db.provider

-----------------------------------------------------------------------------
(* The selection kept in the settings and the selection displayed *)

-----------------------------------------------------------------------------
(* Entries under interleaved calls *)

\* C23: an entry that addImage added stays in images, with its id, url and
\* thumbnail, until removeImage is called with its id: no step of a session
\* takes an added entry out of images unless the step is that call
\* (hist.added holds the entries added and not removed by id).
EntriesDestroyedOnlyByRemoval ==
  [][hist'.reloads = hist.reloads
       => \A e \in hist'.added \cap Range(images) : e \in Range(images')]_vars

\* The library after its startup load, with overlapping calls: every handler
\* may be called while earlier calls are suspended in a fetch or a store
\* write, but only once loadData has finished.
PlainC == Image("102", "data:text/plain,hi", "")

InitSelect ==
  /\ MemoryInit
  /\ thumb = ""
  /\ db \in { [images |-> StoredImages(<<RemoteA, PlainC>>),
               settings |-> NoBackgroundSettings, app |-> NoAppSettings],
              [images |-> StoredImages(<<PlainC, VideoB, RemoteA>>),
               settings |-> RotatingSettings, app |-> NoAppSettings] }

Loaded == ld.pc = "done"

\* Urls of no entry, as a caller holding a url from elsewhere may pass
UnknownUrls == {"https://example.com/none.png", "data:text/plain,none"}

NextSelect ==
  \/ Mount
  \/ LoadImagesRead
  \/ LoadSettingsRead
  \/ Loaded /\ \E url \in Urls(images) \cup UnknownUrls : SelectImage(url)
  \/ \E i \in DOMAIN tasks : SelectResolved(i)
  \/ Loaded /\ \E n \in 0..Len(images) : RotationTick(n)
  \/ Loaded /\ \E i \in DOMAIN images : RemoveImage(images[i].id)
  \/ \E i \in DOMAIN tasks : RemoveWritten(i)
  \/ \E i \in DOMAIN tasks : ShowResolved(i)
  \/ Loaded /\ \E p \in SettingsInputs \cup RotationInputs : UpdateSettings(p)

SpecSelect == InitSelect /\ [][NextSelect]_vars

\* C24: a stale resolution never overwrites a newer selection.  When the
\* selection called last (selectImage, or a random pick of the rotation) has
\* finished together with every selection started before it, currentImage
\* is the display url of its entry, and after selectImage the selection kept
\* in the settings is its url.
NewerSelectionWins ==
  (Idle /\ cur.pre /\ cur.op \in {"selectImage", "selectRandomImage"})
    => /\ currentImage # Null
       /\ Selected = cur.url
       /\ cur.op = "selectImage" => settings.selectedImageUrl = cur.url

\* C25: settings mutations merge into the current settings.  When every call
\* has finished and no store request failed, the settings in memory and the
\* stored settings are the same object, it holds every field value of the
\* last updateSettings(partial), and after selectImage(u) its selectedImageUrl
\* is u (no input of updateSettings names selectedImageUrl).
SettingsMergeCurrent ==
  (Idle /\ ~hist.failed /\ hist.partial # << >>)
    => /\ db.settings = BackgroundBlob(settings)
       /\ \A f \in DOMAIN hist.partial[1] : settings[f] = hist.partial[1][f]
       /\ (cur.op = "selectImage" /\ cur.pre)
            => settings.selectedImageUrl = cur.url

\* C26: entry ids are unique: in every reachable state the entries of images
\* have pairwise distinct ids, so that removeImage(id) removes at most one
\* entry.
IdsUnique ==
  \A i, j \in DOMAIN images : i # j => images[i].id # images[j].id

\* C27: removeImage(id) of an entry that is not the current selection, called
\* when nothing is in progress, takes that one entry out of images and leaves
\* the others in their order, and neither the call nor its completion changes
\* currentImage; addImage puts its entry after all the existing ones.
RemovalAndAppendFrame ==
  /\ [][(hist'.ops = hist.ops + 1 /\ cur'.op = "removeImage" /\ cur'.solo
           /\ ~cur'.pre)
          => /\ \E i \in DOMAIN images : /\ images[i].url = cur'.url
                                         /\ images' = Without(images, i)
             /\ currentImage' = currentImage]_vars
  /\ [][(cur.op = "removeImage" /\ cur.solo /\ ~cur.pre /\ cur' = cur)
          => currentImage' = currentImage]_vars
  /\ [][(cur'.op = "addImage" /\ cur'.solo /\ Len(images') > Len(images))
          => /\ Len(images') = Len(images) + 1
             /\ SubSeq(images', 1, Len(images)) = images
             /\ images'[Len(images')].url = cur'.url]_vars

\* C28: selectImage(url) with a url that is the url of no entry changes
\* nothing: images, currentImage, the settings in memory, the stores, the
\* handle cache and the thumbnail slot stay as they are, and no fetch or
\* write is left in progress by the call.
SelectUnknownChangesNothing ==
  [][(hist'.ops = hist.ops + 1 /\ cur'.op = "selectImage" /\ ~cur'.pre)
       => UNCHANGED <<images, currentImage, settings, db, blobUrlCache,
                      blobUrlToDataUrlMap, minted, thumb, tasks>>]_vars

\* C28 witness: a url of no entry was selected while an earlier selection
\* was waiting for its fetch, in a library with a stored selection
SelectUnknownChangesNothingWitness ==
  /\ cur.op = "selectImage" /\ ~cur.pre /\ ~cur.solo
  /\ cur.url \notin Urls(images)
  /\ images # << >> /\ currentImage # Null
  /\ settings.selectedImageUrl # Null /\ settings.selectedImageUrl # cur.url
  /\ tasks # << >>

\* C29: the handle cache is a consistent bidirectional map.  In every state
\* the entries of blobUrlCache and of blobUrlToDataUrlMap for data: payloads
\* form two functions, each the inverse of the other: a payload has one
\* handle and a handle one payload, also when calls for one payload overlap
\* on the fetch path; and no step takes a payload out of blobUrlCache or a
\* handle out of blobUrlToDataUrlMap.
HandleCacheBijection ==
  /\ [](LET cache == {e \in blobUrlCache : StartsWith(e[1], "data:")}
            rev == {e \in blobUrlToDataUrlMap : StartsWith(e[2], "data:")}
        IN /\ \A e1, e2 \in cache : e1[1] = e2[1] => e1 = e2
           /\ \A e1, e2 \in rev : e1[1] = e2[1] => e1 = e2
           /\ \A e \in cache : <<e[2], e[1]>> \in rev
           /\ \A e \in rev : <<e[2], e[1]>> \in cache)
  /\ [][/\ \A e \in blobUrlCache : MapHas(blobUrlCache', e[1])
        /\ \A e \in blobUrlToDataUrlMap : MapHas(blobUrlToDataUrlMap', e[1])]_vars

\* C30: the fast-access slot holds the current thumbnail.  When selectImage
\* or removeImage, called with nothing else in progress, has finished and the
\* slot current_thumbnail is not empty, the slot holds the thumbnail of the
\* entry that is displayed, so the next load pre-paints no other entry.
ThumbnailSlotCurrent ==
  (Idle /\ thumb # "" /\ cur.solo /\ cur.op \in {"selectImage", "removeImage"})
    => /\ currentImage # Null
       /\ \E i \in DOMAIN images : /\ images[i].url = Selected
                                    /\ images[i].thumbnail = thumb

=============================================================================
